---- MODULE Spec2Model ----
(***************************************************************************)
(* Attendance trajectory engine of JFlow (src/lib/trajectoryEngine.js).    *)
(*                                                                         *)
(* A Date is [valid, day, ms]: day counts local days since 1970-01-01, ms  *)
(* is the time of day in milliseconds; an Invalid Date has valid = FALSE.  *)
(* Text that the code splits or searches (ERP date strings, subject codes) *)
(* is a sequence of one-character strings; text that is only concatenated  *)
(* and compared (dateKey, startTime, slotId, status) is a string.          *)
(***************************************************************************)
EXTENDS Integers, Sequences, FiniteSets, TLC

VARIABLES
    dailyData,    \* ERP daily attendance records handed to buildTrajectory
    timetable,    \* weekday name -> list of recurring slots
    subjectCode,  \* target subject code
    overrides,    \* array of [slotId, status]
    events,       \* array of [startDate, endDate]
    weeksAhead,   \* projection horizon in weeks
    now,          \* the value of new Date() during the call
    startDate,    \* arguments of the last direct generateFutureSlots call
    endDate,
    argSlots,     \* slot list passed to the last stage call
    slots,        \* slot list returned by the last stage call
    calls,        \* stage functions called so far, in order
    result,       \* value returned by buildTrajectory, or NoResult
    normalized,   \* list returned by the last normalizePastSessions call
    loop,         \* i, present, absent and the last y of computeTrajectory's loop
    runs,         \* values returned by the buildTrajectory calls so far
    exception,    \* exception raised by the last call, "" when it returned
    syncInProgress,  \* lock of triggerJiitSync
    syncStatus,      \* published sync status: firebase and jiit
    syncCalls,       \* the invocations of triggerJiitSync and where each stands
    localStorage,    \* what the browser's localStorage holds
    isSilentCaching,       \* in-progress flag of silentCacheAllSubjects
    silentCacheStatus,     \* the last status sent to the silent-cache listeners
    cacheRuns,             \* the invocations of silentCacheAllSubjects
    dailyCalls,            \* the getDailyAttendance call of each caller
    dailyAttendanceCache,  \* subject -> local daily-attendance entry, or null
    clicks,                \* the user's actions on the planning page (slot clicks
                           \* and changes of end date), with the state before each
    jiitManager,           \* the PortalEngine instance: isLoggedIn and its caches
    logins,                \* the login attempts
    fetches                \* the calls of the portal's data methods

\* state of the sync manager
syncVars == <<syncInProgress, syncStatus, syncCalls, localStorage>>

\* state of the application around the engine
\* state of the daily-attendance cache
cacheVars == <<isSilentCaching, silentCacheStatus, cacheRuns, dailyCalls,
               dailyAttendanceCache>>

\* state of the portal engine
portalVars == <<jiitManager, logins, fetches>>

app == <<syncVars, cacheVars, clicks, portalVars>>

\* state of the trajectory engine's model
engine == <<dailyData, timetable, subjectCode, overrides, events, weeksAhead, now,
            startDate, endDate, argSlots, slots, calls, result,
            normalized, loop, runs, exception>>

vars == <<engine, app>>

\* what the direct calls of the other functions leave alone
idle == <<normalized, loop, runs, exception>>

inputs == <<dailyData, timetable, subjectCode, overrides, events, weeksAhead, now>>

-----------------------------------------------------------------------------
(* Bounds of the model *)

MaxRecords == 2

MaxWeeks == 1

MaxSpanDays == 3

MaxSessions == 80

MaxSyncCalls == 2

MaxCacheRuns == 2

MaxSubjects == 2

MaxEndDays == 8

MaxClicks == 3

MaxLogins == 2

MaxFetches == 2

-----------------------------------------------------------------------------
(* The application at rest *)

SyncCallIds == 1..MaxSyncCalls

\* an invocation of triggerJiitSync that has not been made yet
NotCalled == [pc |-> "idle", credentials |-> FALSE, uid |-> FALSE, returned |-> "",
              portalCalls |-> 0, published |-> FALSE, wrote |-> FALSE]

SyncIdle ==
    /\ syncInProgress = FALSE
    /\ syncStatus = [firebase |-> "idle", jiit |-> "unknown"]
    /\ syncCalls = [c \in SyncCallIds |-> NotCalled]
    /\ localStorage = [lastRefresh |-> 0]

\* JavaScript null
Null == [null |-> TRUE]

CacheRunIds == 1..MaxCacheRuns

\* caller 0 is a page, caller r the silent-cache run r
DailyCallers == 0..MaxCacheRuns

SubjectCodes == 1..MaxSubjects

\* a run of silentCacheAllSubjects that has not been started yet
NotStarted == [pc |-> "idle", needsCache |-> <<>>, uid |-> FALSE, credentials |-> FALSE,
               index |-> 0, completed |-> 0, final |-> Null]

\* a getDailyAttendance call that has not been made yet
NoDailyCall == [pc |-> "idle", code |-> 0, uid |-> FALSE, credentials |-> FALSE,
                localCache |-> Null, firestore |-> "none", fetch |-> "none",
                contacted |-> {}, value |-> Null]

CacheIdle ==
    /\ isSilentCaching = FALSE
    /\ silentCacheStatus = Null
    /\ cacheRuns = [r \in CacheRunIds |-> NotStarted]
    /\ dailyCalls = [k \in DailyCallers |-> NoDailyCall]
    /\ dailyAttendanceCache = [code \in SubjectCodes |-> Null]

LoginIds == 1..MaxLogins

FetchIds == 1..MaxFetches

\* the engine after its constructor; 0 stands for null or an empty Map, a
\* positive number for a value obtained under the session of that login
Constructed == [isLoggedIn |-> FALSE, session |-> 0, cachedSemester |-> 0,
                rawSemester |-> 0, cachedSubjects |-> 0, cachedAttendance |-> 0]

NoLogin == [pc |-> "idle", order |-> 0]

NoFetch == [pc |-> "idle", method |-> "", request |-> 0, lastLogin |-> "",
            error |-> "", value |-> 0]

PortalIdle ==
    /\ jiitManager = Constructed
    /\ logins = [l \in LoginIds |-> NoLogin]
    /\ fetches = [f \in FetchIds |-> NoFetch]

AppIdle == SyncIdle /\ CacheIdle /\ clicks = <<>> /\ PortalIdle

-----------------------------------------------------------------------------
(* JavaScript Date *)

DAYS == <<"Sunday", "Monday", "Tuesday", "Wednesday", "Thursday", "Friday", "Saturday">>

EndOfDayMs == 86399999

InvalidDate == [valid |-> FALSE, day |-> 0, ms |-> 0]

DateAt(day, ms) == [valid |-> TRUE, day |-> day, ms |-> ms]

\* days since 1970-01-01 of the civil date y-m-d (m in 1..12)
DaysFromCivil(y, m, d) ==
    LET yy  == IF m <= 2 THEN y - 1 ELSE y
        era == yy \div 400
        yoe == yy - era * 400
        mp  == IF m > 2 THEN m - 3 ELSE m + 9
        doy == (153 * mp + 2) \div 5 + d - 1
        doe == yoe * 365 + yoe \div 4 - yoe \div 100 + doy
    IN  era * 146097 + doe - 719468

\* [year, month (0-based), date] of a day number: getFullYear, getMonth, getDate
CivilFromDays(z0) ==
    LET z   == z0 + 719468
        era == z \div 146097
        doe == z - era * 146097
        yoe == (doe - doe \div 1460 + doe \div 36524 - doe \div 146096) \div 365
        doy == doe - (365 * yoe + yoe \div 4 - yoe \div 100)
        mp  == (5 * doy + 2) \div 153
        d   == doy - (153 * mp + 2) \div 5 + 1
        m   == IF mp < 10 THEN mp + 3 ELSE mp - 9
        y   == yoe + era * 400 + (IF m <= 2 THEN 1 ELSE 0)
    IN  [year |-> y, month |-> m - 1, date |-> d]

\* new Date(year, monthIndex, day) on numbers or NaN: out-of-range months and
\* days roll over, years 0..99 mean 1900..1999, any NaN gives an Invalid Date
NaN == [nan |-> TRUE, val |-> 0]

Num(n) == [nan |-> FALSE, val |-> n]

NewDate(year, monthIndex, day) ==
    IF year.nan \/ monthIndex.nan \/ day.nan THEN InvalidDate
    ELSE LET y0 == IF year.val >= 0 /\ year.val <= 99 THEN 1900 + year.val ELSE year.val
             y  == y0 + monthIndex.val \div 12
             m  == monthIndex.val % 12
         IN  DateAt(DaysFromCivil(y, m + 1, 1) + day.val - 1, 0)

\* date.setHours(h, m, s, ms) keeps the local day
SetHours(date, ms) == IF date.valid THEN DateAt(date.day, ms) ELSE InvalidDate

\* date.setDate(date.getDate() + n)
AddDays(date, n) == IF date.valid THEN DateAt(date.day + n, date.ms) ELSE InvalidDate

getDay(date) == (date.day + 4) % 7

\* a <= b on time values; every comparison with NaN is false
TimeLE(a, b) ==
    /\ a.valid /\ b.valid
    /\ (a.day < b.day \/ (a.day = b.day /\ a.ms <= b.ms))

\* sign of a.date - b.date as a sort comparator reads it (NaN counts as +0)
CompareDates(a, b) ==
    IF ~a.valid \/ ~b.valid THEN 0
    ELSE IF a.day < b.day \/ (a.day = b.day /\ a.ms < b.ms) THEN -1
    ELSE IF a.day = b.day /\ a.ms = b.ms THEN 0
    ELSE 1

\* String(n).padStart(2, '0')
PadStart2(n) == IF n >= 0 /\ n < 10 THEN "0" \o ToString(n) ELSE ToString(n)

\* `${getFullYear()}-${pad(getMonth() + 1)}-${pad(getDate())}`
DateKeyOf(date) ==
    IF ~date.valid THEN "NaN-NaN-NaN"
    ELSE LET c == CivilFromDays(date.day)
         IN  ToString(c.year) \o "-" \o PadStart2(c.month + 1) \o "-" \o PadStart2(c.date)

-----------------------------------------------------------------------------
(* Array.prototype.sort((a, b) => a.date - b.date) *)

\* insert x behind every element that does not compare greater than it
RECURSIVE InsertByDate(_, _)
InsertByDate(sorted, x) ==
    IF sorted = <<>> THEN <<x>>
    ELSE LET last == sorted[Len(sorted)]
         IN  IF CompareDates(last.date, x.date) <= 0
             THEN Append(sorted, x)
             ELSE Append(InsertByDate(SubSeq(sorted, 1, Len(sorted) - 1), x), last)

RECURSIVE StableSortByDate(_)
StableSortByDate(seq) ==
    IF seq = <<>> THEN <<>>
    ELSE InsertByDate(StableSortByDate(SubSeq(seq, 1, Len(seq) - 1)), seq[Len(seq)])

\* the comparator is consistent unless an Invalid Date compares equal to two
\* dates that differ
ConsistentComparator(seq) ==
    \/ \A i \in 1..Len(seq) : seq[i].date.valid
    \/ \A i, j \in 1..Len(seq) :
          (seq[i].date.valid /\ seq[j].date.valid) => seq[i].date = seq[j].date

PermutationsOf(seq) ==
    { [i \in 1..Len(seq) |-> seq[p[i]]] : p \in Permutations(1..Len(seq)) }

\* the orders sort may return: the stable order for a consistent comparator,
\* an implementation-defined order otherwise
SortOutcomes(seq) ==
    IF ConsistentComparator(seq) THEN {StableSortByDate(seq)} ELSE PermutationsOf(seq)

-----------------------------------------------------------------------------
(* String methods on character sequences *)

\* whether needle occurs in text at position i (1-based)
OccursAt(text, needle, i) ==
    /\ i + Len(needle) - 1 <= Len(text)
    /\ SubSeq(text, i, i + Len(needle) - 1) = needle

\* text.includes(needle); the empty needle is included in every text
Includes(text, needle) ==
    \E i \in 1..(Len(text) + 1) : OccursAt(text, needle, i)

\* text.split(sep) for a non-empty separator
RECURSIVE SplitFrom(_, _, _, _)
SplitFrom(text, sep, i, piece) ==
    IF i > Len(text) THEN <<piece>>
    ELSE IF OccursAt(text, sep, i)
         THEN <<piece>> \o SplitFrom(text, sep, i + Len(sep), <<>>)
         ELSE SplitFrom(text, sep, i + 1, Append(piece, text[i]))

Split(text, sep) == SplitFrom(text, sep, 1, <<>>)

DigitChars == <<"0", "1", "2", "3", "4", "5", "6", "7", "8", "9">>

IsDigit(c) == \E k \in 1..Len(DigitChars) : DigitChars[k] = c

DigitValue(c) == (CHOOSE k \in 1..Len(DigitChars) : DigitChars[k] = c) - 1

RECURSIVE LeadingDigits(_, _, _)
LeadingDigits(text, i, acc) ==
    IF i <= Len(text) /\ IsDigit(text[i])
    THEN LeadingDigits(text, i + 1, acc * 10 + DigitValue(text[i]))
    ELSE acc

RECURSIVE SkipSpaces(_, _)
SkipSpaces(text, i) ==
    IF i <= Len(text) /\ text[i] = " " THEN SkipSpaces(text, i + 1) ELSE i

\* parseInt(text): leading blanks, an optional sign, then the longest run of
\* decimal digits; NaN when there is no digit
parseInt(text) ==
    LET i    == SkipSpaces(text, 1)
        sign == IF i <= Len(text) /\ text[i] = "-" THEN -1 ELSE 1
        j    == IF i <= Len(text) /\ (text[i] = "-" \/ text[i] = "+") THEN i + 1 ELSE i
    IN  IF j <= Len(text) /\ IsDigit(text[j])
        THEN Num(sign * LeadingDigits(text, j, 0))
        ELSE NaN

-----------------------------------------------------------------------------
(* Historical session normalizer *)

\* a field value that is not a string (a number such as 20260116) is this
\* one-element sequence; text never holds it
NotAString == <<"[number]">>

\* !dateStr is false for it and dateStr.split is not a function
parseERPDateRaises(dateStr) == dateStr = NotAString

\* parseERPDate returns a Date or null: <<date>> or <<>>
parseERPDate(dateStr) ==
    IF dateStr = <<>> THEN <<>>
    ELSE LET datePart == Split(dateStr, <<" ", "(">>)[1]
             parts    == Split(datePart, <<"/">>)
         IN  IF Len(parts) # 3 THEN <<>>
             ELSE LET month == parseInt(parts[2])
                  IN  <<NewDate(parseInt(parts[3]),
                                IF month.nan THEN NaN ELSE Num(month.val - 1),
                                parseInt(parts[1]))>>

\* a || b on strings and character sequences
OrElse(a, b, empty) == IF a # empty THEN a ELSE b

\* variant: studentstatus is read before present
RECURSIVE MapRecordsStatusFirst(_)
MapRecordsStatusFirst(records) ==
    IF records = <<>> THEN <<>>
    ELSE LET record    == records[1]
             parsed    == parseERPDate(OrElse(record.datetime, record.attendancedate, <<>>))
             statusRaw == OrElse(record.studentstatus, record.present, "")
             status    == IF statusRaw = "Present" \/ statusRaw = "P"
                          THEN "present" ELSE "absent"
         IN  (IF parsed = <<>> THEN <<>>
              ELSE << [date    |-> parsed[1],
                       dateKey |-> DateKeyOf(parsed[1]),
                       status  |-> status,
                       type    |-> "past"] >>)
             \o MapRecordsStatusFirst(Tail(records))

\* the map and filter steps of normalizePastSessions (the fields time and
\* classType of a session are not read by any later stage and are left out)
RECURSIVE MapRecords(_)
MapRecords(records) ==
    IF records = <<>> THEN <<>>
    ELSE LET record    == records[1]
             parsed    == parseERPDate(OrElse(record.datetime, record.attendancedate, <<>>))
             statusRaw == OrElse(record.present, record.studentstatus, "")
             status    == IF statusRaw = "Present" \/ statusRaw = "P"
                          THEN "present" ELSE "absent"
         IN  (IF parsed = <<>> THEN <<>>
              ELSE << [date    |-> parsed[1],
                       dateKey |-> DateKeyOf(parsed[1]),
                       status  |-> status,
                       type    |-> "past"] >>)
             \o MapRecords(Tail(records))

\* the map callback raises a TypeError on the first record whose date field
\* is not a string
normalizePastSessionsRaises(records) ==
    \E i \in 1..Len(records) :
        parseERPDateRaises(OrElse(records[i].datetime, records[i].attendancedate, <<>>))

\* the lists normalizePastSessions may return
normalizePastSessions(records) == SortOutcomes(MapRecords(records))

-----------------------------------------------------------------------------
(* Future slot generator *)

SlotCodeOf(slot) == OrElse(slot.subjectCode, slot.code, <<>>)

\* variant: only a slot code that contains the target code matches
MatchesSubjectOneWay(slot, subject) == Includes(SlotCodeOf(slot), subject)

MatchesSubject(slot, subject) ==
    Includes(SlotCodeOf(slot), subject) \/ Includes(subject, SlotCodeOf(slot))

DayScheduleOf(tt, date) ==
    LET dayName == DAYS[getDay(date) + 1]
    IN  IF dayName \in DOMAIN tt THEN tt[dayName] ELSE <<>>

RECURSIVE SubjectSlotsOn(_, _, _)
SubjectSlotsOn(daySchedule, subject, current) ==
    IF daySchedule = <<>> THEN <<>>
    ELSE LET slot    == daySchedule[1]
             dateKey == DateKeyOf(current)
         IN  (IF MatchesSubject(slot, subject)
              THEN << [date      |-> current,
                       dateKey   |-> dateKey,
                       slotId    |-> dateKey \o "_" \o slot.startTime,
                       startTime |-> slot.startTime,
                       duration  |-> slot.duration,
                       status    |-> "present",
                       type      |-> "projected"] >>
              ELSE <<>>)
             \o SubjectSlotsOn(Tail(daySchedule), subject, current)

\* the while loop of generateFutureSlots
RECURSIVE GenerateFrom(_, _, _, _)
GenerateFrom(tt, subject, current, end) ==
    IF ~TimeLE(current, end) THEN <<>>
    ELSE SubjectSlotsOn(DayScheduleOf(tt, current), subject, current)
         \o GenerateFrom(tt, subject, AddDays(current, 1), end)

\* variant: an inverted range is walked from its earlier end
generateFutureSlotsEitherWay(tt, subject, start, end) ==
    IF subject = <<>> THEN <<>>
    ELSE IF TimeLE(start, end)
         THEN GenerateFrom(tt, subject, SetHours(start, 0), SetHours(end, EndOfDayMs))
         ELSE GenerateFrom(tt, subject, SetHours(end, 0), SetHours(start, EndOfDayMs))

generateFutureSlots(tt, subject, start, end) ==
    IF subject = <<>> THEN <<>>
    ELSE GenerateFrom(tt, subject, SetHours(start, 0), SetHours(end, EndOfDayMs))

-----------------------------------------------------------------------------
(* Override and exclusion resolver *)

\* new Map(overrides.map(o => [o.slotId, o.status])).get(slotId): the last
\* entry for a key wins; "" stands for undefined
RECURSIVE OverrideMapGet(_, _)
OverrideMapGet(ovs, slotId) ==
    IF ovs = <<>> THEN ""
    ELSE IF ovs[Len(ovs)].slotId = slotId THEN ovs[Len(ovs)].status
    ELSE OverrideMapGet(SubSeq(ovs, 1, Len(ovs) - 1), slotId)

\* variant: a kept slot keeps its own status whatever the override says
RECURSIVE MapOverridesKeepStatus(_, _)
MapOverridesKeepStatus(futureSlots, ovs) ==
    IF futureSlots = <<>> THEN <<>>
    ELSE (IF OverrideMapGet(ovs, futureSlots[1].slotId) = "cancelled" THEN <<>>
          ELSE <<futureSlots[1]>>)
         \o MapOverridesKeepStatus(Tail(futureSlots), ovs)

RECURSIVE MapOverrides(_, _)
MapOverrides(futureSlots, ovs) ==
    IF futureSlots = <<>> THEN <<>>
    ELSE LET slot     == futureSlots[1]
             override == OverrideMapGet(ovs, slot.slotId)
         IN  (IF override = "cancelled" THEN <<>>
              ELSE << [slot EXCEPT !.status = OrElse(override, slot.status, "")] >>)
             \o MapOverrides(Tail(futureSlots), ovs)

\* variant: a cancelled slot stays in the list with status 'cancelled'
applyOverridesKeepCancelled(futureSlots, ovs) ==
    [i \in 1..Len(futureSlots) |->
        [futureSlots[i] EXCEPT
            !.status = OrElse(OverrideMapGet(ovs, futureSlots[i].slotId),
                              futureSlots[i].status, "")]]

\* variant: a cancelled slot stays in the list and counts as absent
applyOverridesCancelledAbsent(futureSlots, ovs) ==
    [i \in 1..Len(futureSlots) |->
        LET override == OverrideMapGet(ovs, futureSlots[i].slotId)
        IN  [futureSlots[i] EXCEPT
                !.status = IF override = "cancelled" THEN "absent"
                           ELSE OrElse(override, futureSlots[i].status, "")]]

applyOverrides(futureSlots, ovs) ==
    IF ovs = <<>> THEN futureSlots ELSE MapOverrides(futureSlots, ovs)

InEvent(slot, event) ==
    LET start == SetHours(event.startDate, 0)
        end   == SetHours(event.endDate, EndOfDayMs)
    IN  TimeLE(start, slot.date) /\ TimeLE(slot.date, end)

RECURSIVE FilterEvents(_, _)
FilterEvents(ss, evs) ==
    IF ss = <<>> THEN <<>>
    ELSE (IF \E k \in 1..Len(evs) : InEvent(ss[1], evs[k]) THEN <<>> ELSE <<ss[1]>>)
         \o FilterEvents(Tail(ss), evs)

\* variant: the block's dates are compared as given, without setHours
applyEventsRawRange(ss, evs) ==
    SelectSeq(ss, LAMBDA slot :
        ~\E k \in 1..Len(evs) :
            TimeLE(evs[k].startDate, slot.date) /\ TimeLE(slot.date, evs[k].endDate))

\* variant: a block removes only the slots still at the default status
applyEventsKeepsOverridden(ss, evs) ==
    SelectSeq(ss, LAMBDA slot :
        ~(slot.status = "present" /\ \E k \in 1..Len(evs) : InEvent(slot, evs[k])))

\* variant: the end day of a block is not part of the block
applyEventsEndExclusive(ss, evs) ==
    SelectSeq(ss, LAMBDA slot :
        ~\E k \in 1..Len(evs) :
            /\ TimeLE(SetHours(evs[k].startDate, 0), slot.date)
            /\ TimeLE(slot.date, SetHours(evs[k].endDate, 0))
            /\ slot.date # SetHours(evs[k].endDate, 0))

applyEvents(ss, evs) ==
    IF evs = <<>> THEN ss ELSE FilterEvents(ss, evs)

-----------------------------------------------------------------------------
(* Trajectory calculator *)

\* variant: the future sessions are concatenated in front of the past ones
mergeSessionsFutureFirst(pastSessions, futureSessions) ==
    SortOutcomes(futureSessions \o pastSessions)

\* the lists mergeSessions may return
mergeSessions(pastSessions, futureSessions) ==
    SortOutcomes(pastSessions \o futureSessions)

(* IEEE 754 double arithmetic of the percentage computations.  A positive  *)
(* double is [bits, exp]: bits is its 53-bit significand, most significant *)
(* bit first, and its value is bits * 2^exp; zero has no bits.             *)

SignificandBits == 53

\* fraction bits produced by a division before rounding
QuotientBits == 72

Zero == [bits |-> <<>>, exp |-> 0]

RECURSIVE BinaryOf(_)
BinaryOf(n) == IF n = 0 THEN <<>> ELSE Append(BinaryOf(n \div 2), n % 2)

RECURSIVE IntOf(_)
IntOf(bits) ==
    IF bits = <<>> THEN 0
    ELSE 2 * IntOf(SubSeq(bits, 1, Len(bits) - 1)) + bits[Len(bits)]

RECURSIVE StripZeros(_)
StripZeros(bits) ==
    IF bits # <<>> /\ bits[1] = 0 THEN StripZeros(Tail(bits)) ELSE bits

\* bits + 1 with the carry running into a new leading bit
RECURSIVE Increment(_)
Increment(bits) ==
    IF bits = <<>> THEN <<1>>
    ELSE IF bits[Len(bits)] = 0
         THEN Append(SubSeq(bits, 1, Len(bits) - 1), 1)
         ELSE Append(Increment(SubSeq(bits, 1, Len(bits) - 1)), 0)

\* round the exact value (bits + sticky) * 2^exp to the nearest double, ties
\* to even; bits has no leading zero
RoundToDouble(bits, exp, sticky) ==
    IF Len(bits) <= SignificandBits
    THEN [bits |-> bits \o [i \in 1..(SignificandBits - Len(bits)) |-> 0],
          exp  |-> exp - (SignificandBits - Len(bits))]
    ELSE LET kept    == SubSeq(bits, 1, SignificandBits)
             dropped == SubSeq(bits, SignificandBits + 1, Len(bits))
             rest    == sticky \/ \E i \in 2..Len(dropped) : dropped[i] = 1
             up      == dropped[1] = 1 /\ (rest \/ kept[SignificandBits] = 1)
             raised  == IF up THEN Increment(kept) ELSE kept
             shift   == Len(bits) - SignificandBits
         IN  IF Len(raised) > SignificandBits
             THEN [bits |-> SubSeq(raised, 1, SignificandBits), exp |-> exp + shift + 1]
             ELSE [bits |-> raised, exp |-> exp + shift]

\* v as a string of n bits
ToBits(v, n) == [i \in 1..(n - Len(BinaryOf(v))) |-> 0] \o BinaryOf(v)

\* the next n bits of r / t for r < t, a byte at a time (n a multiple of 8)
RECURSIVE DivBits(_, _, _)
DivBits(r, t, n) ==
    IF n = 0 THEN <<>>
    ELSE ToBits((r * 256) \div t, 8) \o DivBits((r * 256) % t, t, n - 8)

\* the remainder behind those n bits
RECURSIVE RemainderAfter(_, _, _)
RemainderAfter(r, t, n) ==
    IF n = 0 THEN r ELSE RemainderAfter((r * 256) % t, t, n - 8)

\* p / t on numbers (0 <= p, 0 < t)
Divide(p, t) ==
    IF p = 0 THEN Zero
    ELSE LET raw == BinaryOf(p \div t) \o DivBits(p % t, t, QuotientBits)
         IN  RoundToDouble(StripZeros(raw), 0 - QuotientBits,
                           RemainderAfter(p % t, t, QuotientBits) # 0)

\* bits[1..hi] * c + carry, up to a byte at a time from the low end
RECURSIVE MulFrom(_, _, _, _)
MulFrom(bits, c, hi, carry) ==
    IF hi = 0 THEN BinaryOf(carry)
    ELSE LET lo == IF hi > 8 THEN hi - 7 ELSE 1
             v  == IntOf(SubSeq(bits, lo, hi)) * c + carry
             n  == hi - lo + 1
         IN  MulFrom(bits, c, lo - 1, v \div (2 ^ n)) \o ToBits(v % (2 ^ n), n)

\* x * c for a double x and a small whole number c
Times(x, c) ==
    IF x.bits = <<>> THEN Zero
    ELSE RoundToDouble(MulFrom(x.bits, c, Len(x.bits), 0), x.exp, FALSE)

\* Math.round(x) for a double 0 <= x < 2^31: halves round up
MathRound(x) ==
    IF x.bits = <<>> THEN 0
    ELSE LET n == SignificandBits + x.exp
         IN  IF n < 0 THEN 0
             ELSE IF n >= SignificandBits
                  THEN IntOf(x.bits \o [i \in 1..(n - SignificandBits) |-> 0])
                  ELSE IntOf(SubSeq(x.bits, 1, n)) + x.bits[n + 1]

\* Math.round(((present / total) * 100) * 10): y of a trajectory entry in
\* tenths of a percent
RoundAttendance(present, total) ==
    IF total > 0 THEN MathRound(Times(Times(Divide(present, total), 100), 10)) ELSE 0

\* Math.round((present / total) * 1000): the percentage of computeCurrentStats
\* in tenths of a percent
RoundTenths(present, total) ==
    IF total > 0 THEN MathRound(Times(Divide(present, total), 1000)) ELSE 0

\* the two roundings for the totals that a planning page reaches, computed
\* once; larger totals are computed where they occur
TabledTotals == 4 * (MaxRecords + MaxWeeks + 1)

AttendanceTable ==
    [total \in 1..TabledTotals |-> [present \in 0..total |-> RoundAttendance(present, total)]]

TenthsTable ==
    [total \in 1..TabledTotals |-> [present \in 0..total |-> RoundTenths(present, total)]]

AttendanceOf(present, total) ==
    IF total \in DOMAIN AttendanceTable
    THEN AttendanceTable[total][present] ELSE RoundAttendance(present, total)

PercentageOf(present, total) ==
    IF total \in DOMAIN TenthsTable
    THEN TenthsTable[total][present] ELSE RoundTenths(present, total)

\* the loop of computeTrajectory; y is kept in tenths of a percent
RECURSIVE TrajectoryFrom(_, _, _, _)
TrajectoryFrom(sessions, i, present, absent) ==
    IF i > Len(sessions) THEN <<>>
    ELSE LET session == sessions[i]
             p == IF session.status = "present" THEN present + 1 ELSE present
             a == IF session.status # "present" /\ session.status = "absent"
                  THEN absent + 1 ELSE absent
         IN  << [x       |-> i - 1,
                 y       |-> AttendanceOf(p, p + a),
                 type    |-> session.type,
                 date    |-> session.date,
                 dateKey |-> session.dateKey,
                 status  |-> session.status] >>
             \o TrajectoryFrom(sessions, i + 1, p, a)

computeTrajectory(sessions) == TrajectoryFrom(sessions, 1, 0, 0)

CountStatus(seq, status) ==
    Cardinality({ i \in 1..Len(seq) : seq[i].status = status })

computeCurrentStats(pastSessions) ==
    LET present == CountStatus(pastSessions, "present")
        absent  == CountStatus(pastSessions, "absent")
    IN  [present |-> present, absent |-> absent, total |-> present + absent,
         percentage |-> PercentageOf(present, present + absent)]

computeProjectedStats(trajectory) ==
    IF Len(trajectory) = 0
    THEN [present |-> 0, absent |-> 0, total |-> 0, percentage |-> 0]
    ELSE LET present == CountStatus(trajectory, "present")
             absent  == CountStatus(trajectory, "absent")
         IN  [present |-> present, absent |-> absent, total |-> present + absent,
              percentage |-> trajectory[Len(trajectory)].y]

\* trajectory.findIndex(t => t.type === 'projected'), 0-based, -1 when none
FindFirstProjected(trajectory) ==
    IF \E i \in 1..Len(trajectory) : trajectory[i].type = "projected"
    THEN (CHOOSE i \in 1..Len(trajectory) :
             /\ trajectory[i].type = "projected"
             /\ \A j \in 1..(i - 1) : trajectory[j].type # "projected") - 1
    ELSE -1

\* future slots of buildTrajectory after exclusion and overrides (steps 2-4)
ResolvedFutureSlots(tt, subject, ovs, evs, weeks, clock) ==
    LET today == SetHours(clock, 0)
        end   == AddDays(clock, weeks * 7)
    IN  applyOverrides(applyEvents(generateFutureSlots(tt, subject, today, end), evs), ovs)

\* variant: todayIndex is findIndex's result, -1 when nothing is projected
ResultOfRawIndex(pastSessions, allSessions) ==
    LET trajectory     == computeTrajectory(allSessions)
        currentStats   == computeCurrentStats(pastSessions)
        projectedStats == computeProjectedStats(trajectory)
    IN  [trajectory |-> trajectory,
         todayIndex |-> FindFirstProjected(trajectory),
         stats      |-> [current   |-> currentStats,
                         projected |-> projectedStats,
                         delta     |-> projectedStats.percentage - currentStats.percentage]]

\* variant: todayIndex is the number of past sessions
ResultOfPastCount(pastSessions, allSessions) ==
    LET trajectory     == computeTrajectory(allSessions)
        currentStats   == computeCurrentStats(pastSessions)
        projectedStats == computeProjectedStats(trajectory)
    IN  [trajectory |-> trajectory,
         todayIndex |-> Len(pastSessions),
         stats      |-> [current   |-> currentStats,
                         projected |-> projectedStats,
                         delta     |-> projectedStats.percentage - currentStats.percentage]]

\* variant: the current stats are computed over the merged sessions
ResultOfCurrentOverAll(pastSessions, allSessions) ==
    LET trajectory     == computeTrajectory(allSessions)
        currentStats   == computeCurrentStats(allSessions)
        projectedStats == computeProjectedStats(trajectory)
        todayIndex     == FindFirstProjected(trajectory)
    IN  [trajectory |-> trajectory,
         todayIndex |-> IF todayIndex >= 0 THEN todayIndex ELSE Len(trajectory),
         stats      |-> [current   |-> currentStats,
                         projected |-> projectedStats,
                         delta     |-> projectedStats.percentage - currentStats.percentage]]

\* steps 6-7 of buildTrajectory on one outcome of the two sorts
ResultOf(pastSessions, allSessions) ==
    LET trajectory     == computeTrajectory(allSessions)
        currentStats   == computeCurrentStats(pastSessions)
        projectedStats == computeProjectedStats(trajectory)
        todayIndex     == FindFirstProjected(trajectory)
    IN  [trajectory |-> trajectory,
         todayIndex |-> IF todayIndex >= 0 THEN todayIndex ELSE Len(trajectory),
         stats      |-> [current   |-> currentStats,
                         projected |-> projectedStats,
                         delta     |-> projectedStats.percentage - currentStats.percentage]]

\* variant: the event blocks are applied to the historical sessions as well
buildTrajectoryExcludingHistory(records, tt, subject, ovs, evs, weeks, clock) ==
    LET futureSlots == ResolvedFutureSlots(tt, subject, ovs, evs, weeks, clock)
    IN  UNION { { ResultOf(applyEvents(pastSessions, evs), allSessions) :
                    allSessions \in mergeSessions(applyEvents(pastSessions, evs),
                                                  futureSlots) } :
                pastSessions \in normalizePastSessions(records) }

\* the values buildTrajectory may return
buildTrajectory(records, tt, subject, ovs, evs, weeks, clock) ==
    LET futureSlots == ResolvedFutureSlots(tt, subject, ovs, evs, weeks, clock)
    IN  UNION { { ResultOf(pastSessions, allSessions) :
                    allSessions \in mergeSessions(pastSessions, futureSlots) } :
                pastSessions \in normalizePastSessions(records) }

-----------------------------------------------------------------------------
(* Inputs *)

\* "28/01/2026 (x)", "30/01/2026", "02/02/2026 (x)", "n/a" and "a/b/c"
DateWed == <<"2", "8", "/", "0", "1", "/", "2", "0", "2", "6", " ", "(", "x", ")">>

DateFri == <<"3", "0", "/", "0", "1", "/", "2", "0", "2", "6">>

DateMon == <<"0", "2", "/", "0", "2", "/", "2", "0", "2", "6", " ", "(", "x", ")">>

DateTwoParts == <<"n", "/", "a">>

DateLetters == <<"a", "/", "b", "/", "c">>

Record(datetime, attendancedate, present, studentstatus) ==
    [datetime |-> datetime, attendancedate |-> attendancedate,
     present |-> present, studentstatus |-> studentstatus]

\* records whose date parses to a date or is dropped
PlainRecords ==
    { Record(DateWed, <<>>, "Present", ""),
      Record(<<>>, DateFri, "", "Absent"),
      Record(DateMon, <<>>, "P", ""),
      Record(DateTwoParts, <<>>, "Present", "") }

\* records of which one has a date of three non-numeric parts
RecordChoices ==
    { Record(DateWed, <<>>, "Present", ""),
      Record(<<>>, DateFri, "", "Absent"),
      Record(DateLetters, <<>>, "Present", "") }

\* records for normalizePastSessions: dates that parse, dates of two parts, of
\* letters, missing and numeric, and the combinations of the presence fields
NormalizeRecords ==
    { Record(DateWed, <<>>, "Present", ""),
      Record(<<>>, DateFri, "", "Absent"),
      Record(DateMon, <<>>, "P", ""),
      Record(DateTwoParts, DateFri, "Present", ""),
      Record(<<>>, <<>>, "Present", ""),
      Record(DateLetters, <<>>, "Present", ""),
      Record(DateWed, <<>>, "", "Present"),
      Record(DateWed, <<>>, "Absent", "Present"),
      Record(DateFri, <<>>, "", ""),
      Record(DateFri, <<>>, "", "P"),
      Record(DateMon, <<>>, "A", "P"),
      Record(NotAString, <<>>, "Present", "") }

SeqsUpTo(S, n) == UNION { [1..k -> S] : k \in 0..n }

CS1 == <<"C", "S", "1">>

CS10 == <<"C", "S", "1", "0">>

S1 == <<"S", "1">>

MA2 == <<"M", "A", "2">>

Entry(code, altCode, startTime) ==
    [subjectCode |-> code, code |-> altCode, startTime |-> startTime, duration |-> 50]

TemplateChoices ==
    { [Saturday |-> <<>>],
      [Monday |-> <<Entry(CS1, <<>>, "09:00"), Entry(MA2, <<>>, "10:00")>>,
       Tuesday |-> <<Entry(S1, <<>>, "10:00")>>],
      [Monday |-> <<Entry(CS10, <<>>, "09:00"), Entry(CS1, <<>>, "09:00")>>,
       Friday |-> <<Entry(<<>>, CS1, "09:00")>>,
       Sunday |-> <<Entry(CS1, <<>>, "09:00")>>],
      [Friday |-> <<Entry(CS1, <<>>, "09:00"), Entry(<<>>, <<>>, "11:00")>>] }

\* new Date() is Friday 2026-01-30, 10:00 local time
NowChoices == { DateAt(20483, 36000000) }

OverrideSlotIds == <<"2026-01-30_09:00", "2026-02-02_09:00", "2026-02-04_09:00">>

OverrideStatuses == { "present", "absent", "cancelled" }

\* Object.entries(overrides).map(([slotId, status]) => ({slotId, status})) of
\* an override object with the keys ks
RECURSIVE EntriesOf(_, _, _)
EntriesOf(obj, ks, k) ==
    IF k > Len(OverrideSlotIds) THEN <<>>
    ELSE (IF OverrideSlotIds[k] \in ks
          THEN << [slotId |-> OverrideSlotIds[k], status |-> obj[OverrideSlotIds[k]]] >>
          ELSE <<>>)
         \o EntriesOf(obj, ks, k + 1)

\* every override object on the first two slot ids, and one on the third
OverrideChoices ==
    UNION { { EntriesOf(obj, ks, 1) : obj \in [ks -> OverrideStatuses] } :
            ks \in SUBSET { OverrideSlotIds[1], OverrideSlotIds[2] } }
    \cup { << [slotId |-> OverrideSlotIds[3], status |-> "cancelled"] >> }

Event(startDay, startMs, endDay, endMs) ==
    [startDate |-> DateAt(startDay, startMs), endDate |-> DateAt(endDay, endMs)]

\* Friday 30 Jan 15:00 to the same day 08:00; Sunday 1 Feb to Monday 2 Feb
\* with Monday 2 Feb noon; Tuesday 3 Feb back to Sunday 1 Feb with Monday noon
EventChoices ==
    { <<>>,
      << Event(20483, 54000000, 20483, 28800000) >>,
      << Event(20485, 0, 20486, 0), Event(20486, 43200000, 20486, 43200000) >>,
      << Event(20487, 0, 20485, 0), Event(20486, 43200000, 20486, 43200000) >> }

NoResult == [trajectory |-> <<>>, todayIndex |-> 0, stats |-> [null |-> TRUE]]

\* computeTrajectory before its first iteration: i = 0, present = 0, absent = 0
LoopStart == [i |-> 0, present |-> 0, absent |-> 0, y |-> 0]

HasInvalidDate(records) ==
    \E i \in 1..Len(records) : records[i].datetime = DateLetters

\* a planning page with a subject, its overrides and event blocks
InitPlanned ==
    /\ dailyData \in SeqsUpTo(PlainRecords, MaxRecords)
    /\ timetable \in TemplateChoices
    /\ subjectCode = CS1
    /\ overrides \in OverrideChoices
    /\ events \in EventChoices
    /\ weeksAhead \in 0..MaxWeeks

\* the route parameter is empty
InitNoSubject ==
    /\ dailyData \in SeqsUpTo(PlainRecords, MaxRecords)
    /\ timetable \in TemplateChoices
    /\ subjectCode = <<>>
    /\ overrides = <<>>
    /\ events = <<>>
    /\ weeksAhead \in 0..MaxWeeks

\* the ERP data holds a date of three non-numeric parts
InitInvalidDates ==
    /\ dailyData \in { r \in SeqsUpTo(RecordChoices, MaxRecords) : HasInvalidDate(r) }
    /\ timetable \in TemplateChoices
    /\ subjectCode = CS1
    /\ overrides = <<>>
    /\ events = <<>>
    /\ weeksAhead = 0

HasNumber(records) ==
    \E i \in 1..Len(records) : records[i].datetime = NotAString

\* the ERP data holds a record whose date field is a number
InitMalformed ==
    /\ dailyData \in { r \in SeqsUpTo({ Record(DateWed, <<>>, "Present", ""),
                                         Record(NotAString, <<>>, "Present", "") },
                                       MaxRecords) : HasNumber(r) }
    /\ timetable \in TemplateChoices
    /\ subjectCode = CS1
    /\ overrides = <<>>
    /\ events = <<>>
    /\ weeksAhead = 0

Init ==
    /\ AppIdle
    /\ (InitPlanned \/ InitNoSubject \/ InitInvalidDates \/ InitMalformed)
    /\ now \in NowChoices
    /\ startDate = now
    /\ endDate = now
    /\ argSlots = <<>>
    /\ slots = <<>>
    /\ calls = <<>>
    /\ result = NoResult
    /\ normalized = <<>>
    /\ loop = LoopStart
    /\ runs = <<>>
    /\ exception = ""

-----------------------------------------------------------------------------
(* Operations *)

\* step 1 of buildTrajectory raises what normalizePastSessions raises
buildTrajectoryRaises(records) == normalizePastSessionsRaises(records)

BuildTrajectory ==
    /\ calls = <<>>
    /\ IF buildTrajectoryRaises(dailyData)
       THEN /\ exception' = "TypeError"
            /\ UNCHANGED result
       ELSE /\ exception' = ""
            /\ result' \in buildTrajectory(dailyData, timetable, subjectCode, overrides,
                                           events, weeksAhead, now)
    /\ calls' = <<"buildTrajectory">>
    /\ UNCHANGED <<app, inputs, startDate, endDate, argSlots, slots, normalized, loop, runs>>

Next == BuildTrajectory

Spec == Init /\ [][Next]_vars

-----------------------------------------------------------------------------
(* The stage functions called one by one *)

\* startDate is Friday 2026-01-30 at 00:00 or 10:00; endDate is 08:00 on a day
\* from the day before startDate to MaxSpanDays days after it, or one of the
\* start times
StartChoices == { DateAt(20483, 0), DateAt(20483, 36000000) }

EndChoices == { DateAt(20483 + n, 28800000) : n \in (-1)..MaxSpanDays } \cup StartChoices

InitStages ==
    /\ AppIdle
    /\ dailyData = <<>>
    /\ weeksAhead = 0
    /\ timetable \in TemplateChoices
    /\ \/ subjectCode = CS1 /\ overrides \in OverrideChoices /\ events \in EventChoices
       \/ subjectCode = <<>> /\ overrides = <<>> /\ events = <<>>
    /\ now \in NowChoices
    /\ startDate = now
    /\ endDate = now
    /\ argSlots = <<>>
    /\ slots = <<>>
    /\ calls = <<>>
    /\ result = NoResult
    /\ normalized = <<>>
    /\ loop = LoopStart
    /\ runs = <<>>
    /\ exception = ""

Called(name) == \E k \in 1..Len(calls) : calls[k] = name

GenerateFutureSlots ==
    /\ calls = <<>>
    /\ \E start \in StartChoices, end \in EndChoices :
          /\ startDate' = start
          /\ endDate' = end
          /\ slots' = generateFutureSlots(timetable, subjectCode, start, end)
    /\ argSlots' = <<>>
    /\ calls' = <<"generateFutureSlots">>
    /\ UNCHANGED <<app, inputs, result, idle>>

ApplyEvents ==
    /\ Called("generateFutureSlots")
    /\ ~Called("applyEvents")
    /\ argSlots' = slots
    /\ slots' = applyEvents(slots, events)
    /\ calls' = Append(calls, "applyEvents")
    /\ UNCHANGED <<app, inputs, startDate, endDate, result, idle>>

ApplyOverrides ==
    /\ Called("generateFutureSlots")
    /\ ~Called("applyOverrides")
    /\ argSlots' = slots
    /\ slots' = applyOverrides(slots, overrides)
    /\ calls' = Append(calls, "applyOverrides")
    /\ UNCHANGED <<app, inputs, startDate, endDate, result, idle>>

NextStages == GenerateFutureSlots \/ ApplyEvents \/ ApplyOverrides

SpecStages == InitStages /\ [][NextStages]_vars

-----------------------------------------------------------------------------
(* buildTrajectory called twice by the same page on the same day *)

\* new Date() later on Friday 2026-01-30: 10:00 and 23:59:59.999
ClockChoices == { DateAt(20483, 36000000), DateAt(20483, EndOfDayMs) }

RunOverrides ==
    { <<>>,
      << [slotId |-> OverrideSlotIds[1], status |-> "absent"] >>,
      << [slotId |-> OverrideSlotIds[1], status |-> "absent"],
         [slotId |-> OverrideSlotIds[2], status |-> "cancelled"] >> }

InitRuns ==
    /\ AppIdle
    /\ dailyData \in SeqsUpTo(PlainRecords, MaxRecords)
    /\ timetable \in TemplateChoices
    /\ subjectCode = CS1
    /\ overrides \in RunOverrides
    /\ events \in EventChoices
    /\ weeksAhead \in {0, MaxWeeks}
    /\ now \in NowChoices
    /\ startDate = now
    /\ endDate = now
    /\ argSlots = <<>>
    /\ slots = <<>>
    /\ calls = <<>>
    /\ result = NoResult
    /\ normalized = <<>>
    /\ loop = LoopStart
    /\ runs = <<>>
    /\ exception = ""

\* dailyData after normalizePastSessions: map and filter build a new array,
\* which is the one that sort reorders
dailyDataAfterCall(records) == records

\* variant: setHours is called on the dates of the event block itself
eventsNormalizedInPlace(evs) ==
    [k \in 1..Len(evs) |-> [startDate |-> SetHours(evs[k].startDate, 0),
                            endDate   |-> SetHours(evs[k].endDate, EndOfDayMs)]]

\* events after applyEvents: new Date(event.startDate) and
\* new Date(event.endDate) are copies, and setHours changes the copies
eventsAfterCall(evs) == evs

\* the arrays and objects handed to a call
Arguments == <<dailyData, timetable, subjectCode, overrides, events, weeksAhead>>

Run ==
    /\ Len(runs) < 2
    /\ ~buildTrajectoryRaises(dailyData)
    /\ \E clock \in ClockChoices :
          /\ TimeLE(now, clock)
          /\ now' = clock
          /\ \E value \in buildTrajectory(dailyData, timetable, subjectCode, overrides,
                                           events, weeksAhead, clock) :
                /\ result' = value
                /\ runs' = Append(runs, [args |-> Arguments, clock |-> clock,
                                         value |-> value])
    /\ dailyData' = dailyDataAfterCall(dailyData)
    /\ events' = eventsAfterCall(events)
    /\ calls' = Append(calls, "buildTrajectory")
    /\ exception' = ""
    /\ UNCHANGED <<app, timetable, subjectCode, overrides, weeksAhead, startDate, endDate,
                   argSlots, slots, normalized, loop>>

NextRuns == Run

SpecRuns == InitRuns /\ [][NextRuns]_vars

-----------------------------------------------------------------------------
(* normalizePastSessions called on its own *)

InitNormalize ==
    /\ AppIdle
    /\ dailyData \in SeqsUpTo(NormalizeRecords, MaxRecords)
    /\ timetable = [Saturday |-> <<>>]
    /\ subjectCode = CS1
    /\ overrides = <<>>
    /\ events = <<>>
    /\ weeksAhead = 0
    /\ now \in NowChoices
    /\ startDate = now
    /\ endDate = now
    /\ argSlots = <<>>
    /\ slots = <<>>
    /\ calls = <<>>
    /\ result = NoResult
    /\ normalized = <<>>
    /\ loop = LoopStart
    /\ runs = <<>>
    /\ exception = ""

NormalizePastSessions ==
    /\ calls = <<>>
    /\ IF normalizePastSessionsRaises(dailyData)
       THEN /\ exception' = "TypeError"
            /\ UNCHANGED normalized
       ELSE /\ exception' = ""
            /\ normalized' \in normalizePastSessions(dailyData)
    /\ calls' = <<"normalizePastSessions">>
    /\ UNCHANGED <<app, inputs, startDate, endDate, argSlots, slots, result, loop, runs>>

NextNormalize == NormalizePastSessions

SpecNormalize == InitNormalize /\ [][NextNormalize]_vars

-----------------------------------------------------------------------------
(* The loop of computeTrajectory, an iteration at a time, and the projected *)
(* stats computed from the trajectory it built                             *)

InitLoop ==
    /\ AppIdle
    /\ dailyData = <<>>
    /\ timetable = [Saturday |-> <<>>]
    /\ subjectCode = CS1
    /\ overrides = <<>>
    /\ events = <<>>
    /\ weeksAhead = 0
    /\ now \in NowChoices
    /\ startDate = now
    /\ endDate = now
    /\ argSlots = <<>>
    /\ slots = <<>>
    /\ calls = <<>>
    /\ result = NoResult
    /\ normalized = <<>>
    /\ loop = LoopStart
    /\ runs = <<>>
    /\ exception = ""

\* one iteration: sessions[i] has status 'present' or 'absent'
LoopIteration ==
    /\ calls = <<>>
    /\ loop.i < MaxSessions
    /\ \E status \in {"present", "absent"} :
          LET present == IF status = "present" THEN loop.present + 1 ELSE loop.present
              absent  == IF status = "absent" THEN loop.absent + 1 ELSE loop.absent
          IN  loop' = [i       |-> loop.i + 1,
                       present |-> present,
                       absent  |-> absent,
                       y       |-> AttendanceOf(present, present + absent)]
    /\ UNCHANGED <<app, inputs, startDate, endDate, argSlots, slots, calls, result,
                   normalized, runs, exception>>

\* computeProjectedStats on the trajectory the loop has built so far
ComputeProjectedStats ==
    /\ calls = <<>>
    /\ result' = [result EXCEPT !.stats =
                     [projected |->
                         IF loop.i = 0
                         THEN [present |-> 0, absent |-> 0, total |-> 0, percentage |-> 0]
                         ELSE [present    |-> loop.present,
                               absent     |-> loop.absent,
                               total      |-> loop.present + loop.absent,
                               percentage |-> loop.y]]]
    /\ calls' = <<"computeProjectedStats">>
    /\ UNCHANGED <<app, inputs, startDate, endDate, argSlots, slots, normalized, loop,
                   runs, exception>>

\* step 7 of buildTrajectory when no future slot survived: the sessions the
\* loop walked are the past sessions
ComputeStatsOfHistory ==
    /\ calls = <<>>
    /\ loop.i > 0
    /\ LET currentStats   == [present    |-> loop.present,
                              absent     |-> loop.absent,
                              total      |-> loop.present + loop.absent,
                              percentage |-> PercentageOf(loop.present,
                                                          loop.present + loop.absent)]
           projectedStats == [present    |-> loop.present,
                              absent     |-> loop.absent,
                              total      |-> loop.present + loop.absent,
                              percentage |-> loop.y]
       IN  result' = [result EXCEPT
                         !.todayIndex = loop.i,
                         !.stats = [current   |-> currentStats,
                                    projected |-> projectedStats,
                                    delta     |-> projectedStats.percentage
                                                    - currentStats.percentage]]
    /\ calls' = <<"computeCurrentStats", "computeProjectedStats">>
    /\ UNCHANGED <<app, inputs, startDate, endDate, argSlots, slots, normalized, loop,
                   runs, exception>>

NextLoop == LoopIteration \/ ComputeProjectedStats \/ ComputeStatsOfHistory

SpecLoop == InitLoop /\ [][NextLoop]_vars

-----------------------------------------------------------------------------
(* Vocabulary of the properties *)

\* buildTrajectory was called and has returned
Done == calls = <<"buildTrajectory">> /\ exception = ""


\* the window buildTrajectory hands to the generator, and what it generates
Today == SetHours(now, 0)

HorizonEnd == AddDays(now, weeksAhead * 7)

GeneratedSlots == generateFutureSlots(timetable, subjectCode, Today, HorizonEnd)

\* the calendar day of date lies in the whole days startDate .. endDate
DayInBlock(date, event) ==
    /\ date.valid
    /\ event.startDate.day <= date.day
    /\ date.day <= event.endDate.day

Excluded(slot) == \E k \in 1..Len(events) : DayInBlock(slot.date, events[k])

\* the override entries that name slot
TargetedBy(slot, status) ==
    \E k \in 1..Len(overrides) :
        overrides[k].slotId = slot.slotId /\ overrides[k].status = status

IndexSet(seq) == 1..Len(seq)

\* indexes of the generated slots that no event block covers and a
\* 'cancelled' override names
CancelledSlots ==
    LET generated == GeneratedSlots
    IN  { i \in IndexSet(generated) :
            ~Excluded(generated[i]) /\ TargetedBy(generated[i], "cancelled") }

NotCancelled(o) == o.status # "cancelled"

\* the results of the same call without its 'cancelled' overrides
ResultsWithoutCancellations ==
    buildTrajectory(dailyData, timetable, subjectCode,
                    SelectSeq(overrides, NotCancelled), events, weeksAhead, now)

SurvivingSlots ==
    ResolvedFutureSlots(timetable, subjectCode, overrides, events, weeksAhead, now)

MergedEmpty == MapRecords(dailyData) = <<>> /\ SurvivingSlots = <<>>

ZeroStats == [present |-> 0, absent |-> 0, total |-> 0, percentage |-> 0]

PrefixCount(trajectory, i, status) ==
    Cardinality({ j \in 1..i : trajectory[j].status = status })

-----------------------------------------------------------------------------
(* Properties of buildTrajectory *)

\* C1: a projected entry of the returned trajectory never has a date inside
\* an event block, whatever override names its slot.
C1_ExclusionPrecedesOverride ==
    Done => \A i \in IndexSet(result.trajectory) :
                result.trajectory[i].type = "projected"
                    => ~Excluded(result.trajectory[i])

\* a generated slot inside an event block is named by a 'present' or
\* 'absent' override, and the call has returned
C1_Witness ==
    /\ Done
    /\ \E i \in IndexSet(GeneratedSlots) :
          /\ Excluded(GeneratedSlots[i])
          /\ (TargetedBy(GeneratedSlots[i], "present")
              \/ TargetedBy(GeneratedSlots[i], "absent"))
    /\ result.trajectory # <<>>

\* C2: 'cancelled' overrides shorten the trajectory by the number of generated,
\* non-excluded slots they name; those slots count as neither present nor
\* absent, so against the same call without the cancellations the present
\* count drops by that number and the absent count is unchanged.
C2_CancellationRemoves ==
    Done =>
        LET cancelled == Cardinality(CancelledSlots)
            projected == result.stats.projected
        IN  \A plain \in ResultsWithoutCancellations :
                /\ Len(result.trajectory) = Len(plain.trajectory) - cancelled
                /\ projected.present = plain.stats.projected.present - cancelled
                /\ projected.absent = plain.stats.projected.absent
                /\ projected.present + projected.absent = Len(result.trajectory)

\* two generated slots are cancelled, another survives, and history exists
C2_Witness ==
    /\ Done
    /\ Cardinality(CancelledSlots) >= 2
    /\ SurvivingSlots # <<>>
    /\ MapRecords(dailyData) # <<>>

C4_TodayIndex ==
    Done =>
        LET t == result.trajectory
            k == result.todayIndex
        IN  /\ (\E i \in IndexSet(t) : t[i].type = "projected")
                  => /\ k < Len(t)
                     /\ t[k + 1].type = "projected"
                     /\ \A j \in 1..k : t[j].type # "projected"
            /\ SurvivingSlots = <<>> => k = Len(t)

\* history exists, slots were generated and none survived
C4_Witness ==
    /\ Done
    /\ GeneratedSlots # <<>>
    /\ SurvivingSlots = <<>>
    /\ result.todayIndex = Len(result.trajectory)
    /\ result.todayIndex > 0

PastBeforeProjected(t) ==
    \A i, j \in IndexSet(t) :
        (t[i].type = "past" /\ t[j].type = "projected") => TimeLE(t[i].date, t[j].date)

C6_EverySessionCounted ==
    Done => \A i \in IndexSet(result.trajectory) :
                PrefixCount(result.trajectory, i, "present")
                    + PrefixCount(result.trajectory, i, "absent") = i

\* an 'absent' override is in the trajectory and a 'cancelled' one took a
\* generated slot out
C6_Witness ==
    /\ Done
    /\ CancelledSlots # {}
    /\ \E i \in IndexSet(result.trajectory) :
          /\ result.trajectory[i].type = "projected"
          /\ result.trajectory[i].status = "absent"

-----------------------------------------------------------------------------
(* Properties of the stage functions *)

LastCall == IF calls = <<>> THEN "" ELSE calls[Len(calls)]

\* the k-th smallest element of a set of indexes
KthOf(S, k) == CHOOSE i \in S : Cardinality({ j \in S : j <= i }) = k

\* indexes of the slots passed to applyOverrides that no 'cancelled' override names
KeptByOverrides ==
    { i \in IndexSet(argSlots) : ~TargetedBy(argSlots[i], "cancelled") }

ExpectedStatus(slot) ==
    IF TargetedBy(slot, "absent") THEN "absent" ELSE "present"

\* C8: applyOverrides keeps, in their order, exactly the slots that no
\* 'cancelled' override names; a kept slot has status 'absent' when an
\* 'absent' override names it and 'present' otherwise (no override, or
\* 'present'); so every output status is 'present' or 'absent'.
C8_ApplyOverrides ==
    LastCall = "applyOverrides" =>
        /\ Len(slots) = Cardinality(KeptByOverrides)
        /\ \A k \in IndexSet(slots) :
              LET slot == argSlots[KthOf(KeptByOverrides, k)]
              IN  /\ slots[k] = [slot EXCEPT !.status = ExpectedStatus(slot)]
                  /\ slots[k].status \in {"present", "absent"}

\* one call met a slot without override, a slot overridden to 'absent' and a
\* cancelled slot
C8_Witness ==
    /\ LastCall = "applyOverrides"
    /\ \E i, j, k \in IndexSet(argSlots) :
          /\ TargetedBy(argSlots[i], "absent")
          /\ TargetedBy(argSlots[j], "cancelled")
          /\ \A o \in IndexSet(overrides) : overrides[o].slotId # argSlots[k].slotId
    /\ Len(slots) >= 2

GeneratedByCall == generateFutureSlots(timetable, subjectCode, startDate, endDate)

\* C9 as stated: some future slots, event blocks and overrides exist for which
\* overrides first and exclusion second differ from exclusion first and
\* overrides second (read once both phases have run; the lists range over
\* every input of SpecStages).
C9_OrderObservable ==
    (Called("applyEvents") /\ Called("applyOverrides")) =>
        \E tt \in TemplateChoices, ovs \in OverrideChoices, evs \in EventChoices,
           start \in StartChoices, end \in EndChoices :
            LET generated == generateFutureSlots(tt, CS1, start, end)
            IN  applyEvents(applyOverrides(generated, ovs), evs)
                    # applyOverrides(applyEvents(generated, evs), ovs)

\* C9 amended: the order of the two phases is not observable; overrides first
\* and exclusion second yield the slot list of exclusion first and overrides
\* second, and conversely.
C9_OrderNotObservable ==
    /\ calls = <<"generateFutureSlots", "applyOverrides", "applyEvents">>
          => slots = applyOverrides(applyEvents(GeneratedByCall, events), overrides)
    /\ calls = <<"generateFutureSlots", "applyEvents", "applyOverrides">>
          => slots = applyEvents(applyOverrides(GeneratedByCall, overrides), events)

\* overrides ran before exclusion on a list with an excluded slot overridden
\* to 'absent', and a slot survived
C9_Witness ==
    /\ calls = <<"generateFutureSlots", "applyOverrides", "applyEvents">>
    /\ \E i \in IndexSet(GeneratedByCall) :
          /\ Excluded(GeneratedByCall[i])
          /\ TargetedBy(GeneratedByCall[i], "absent")
    /\ slots # <<>>

\* the weekday name of a day number, counted from Sunday 2026-01-25
WeekdayName(d) == DAYS[((d - 20478) % 7) + 1]

ScheduleOn(d) ==
    IF WeekdayName(d) \in DOMAIN timetable THEN timetable[WeekdayName(d)] ELSE <<>>

\* indexes of the entries of day d related to the target code by substring
MatchingEntries(d) ==
    { i \in IndexSet(ScheduleOn(d)) :
        LET code == IF ScheduleOn(d)[i].subjectCode # <<>>
                    THEN ScheduleOn(d)[i].subjectCode ELSE ScheduleOn(d)[i].code
        IN  Includes(code, subjectCode) \/ Includes(subjectCode, code) }

DaysInRange == { d \in startDate.day..endDate.day : TRUE }

CalendarKey(d) ==
    CASE d = 20482 -> "2026-01-29"
      [] d = 20483 -> "2026-01-30"
      [] d = 20484 -> "2026-01-31"
      [] d = 20485 -> "2026-02-01"
      [] d = 20486 -> "2026-02-02"
      [] d = 20487 -> "2026-02-03"
      [] d = 20488 -> "2026-02-04"
      [] OTHER -> "?"

SlotsOn(d) == { k \in IndexSet(slots) : slots[k].date.day = d }

\* one slot per day of the range and matching entry, in entry order, with
\* status 'present', type 'projected', the day's dateKey and
\* slotId = dateKey_startTime; slots ascend by date
ExactlyTheMatchingSlots ==
    /\ \A d \in DaysInRange :
          /\ Cardinality(SlotsOn(d)) = Cardinality(MatchingEntries(d))
          /\ \A n \in 1..Cardinality(SlotsOn(d)) :
                LET slot  == slots[KthOf(SlotsOn(d), n)]
                    entry == ScheduleOn(d)[KthOf(MatchingEntries(d), n)]
                IN  /\ slot.date = DateAt(d, 0)
                    /\ slot.dateKey = CalendarKey(d)
                    /\ slot.slotId = CalendarKey(d) \o "_" \o entry.startTime
                    /\ slot.startTime = entry.startTime
                    /\ slot.status = "present"
                    /\ slot.type = "projected"
    /\ \A k \in IndexSet(slots) : slots[k].date.day \in DaysInRange
    /\ \A k \in 1..(Len(slots) - 1) : slots[k].date.day <= slots[k + 1].date.day

\* C10 as stated: generateFutureSlots emits exactly the matching slots.
C10_GeneratesEveryMatch ==
    LastCall = "generateFutureSlots" => ExactlyTheMatchingSlots

\* C10 amended: for a non-empty target code generateFutureSlots emits exactly
\* the matching slots; for an empty target code it emits nothing.
C10_GeneratesEveryMatchOfATarget ==
    LastCall = "generateFutureSlots" =>
        IF subjectCode = <<>> THEN slots = <<>> ELSE ExactlyTheMatchingSlots

\* a range of several days gave two slots on one day and slots on other days
C10_Witness ==
    /\ LastCall = "generateFutureSlots"
    /\ subjectCode # <<>>
    /\ \E d \in DaysInRange : Cardinality(SlotsOn(d)) >= 2
    /\ Cardinality({ slots[k].date.day : k \in IndexSet(slots) }) >= 3

NoEntries(tt) == \A dayName \in DOMAIN tt : tt[dayName] = <<>>

EntryCode(entry) == IF entry.subjectCode # <<>> THEN entry.subjectCode ELSE entry.code

\* the template entry that the n-th slot emitted for day d comes from
EntryOfSlot(d, n) == ScheduleOn(d)[KthOf(MatchingEntries(d), n)]

\* C12: within one call of generateFutureSlots, two emitted slots that come
\* from template entries with different subject codes never share a slotId.
C12_SlotIdsOfOneSubject ==
    (LastCall = "generateFutureSlots" /\ subjectCode # <<>>) =>
        \A d \in DaysInRange :
            \A m, n \in 1..Cardinality(SlotsOn(d)) :
                EntryCode(EntryOfSlot(d, m)) # EntryCode(EntryOfSlot(d, n))
                    => slots[KthOf(SlotsOn(d), m)].slotId # slots[KthOf(SlotsOn(d), n)].slotId

-----------------------------------------------------------------------------
(* Properties of normalizePastSessions *)

\* normalizePastSessions was called and has returned
Normalized == calls = <<"normalizePastSessions">> /\ exception = ""

\* the date field of a record: the first non-empty of datetime, attendancedate
DateFieldOf(record) ==
    IF record.datetime # <<>> THEN record.datetime ELSE record.attendancedate

\* the part of text before the first " ("
BeforeParen(text) ==
    IF \E k \in IndexSet(text) : OccursAt(text, <<" ", "(">>, k)
    THEN SubSeq(text, 1, (CHOOSE k \in IndexSet(text) :
                            /\ OccursAt(text, <<" ", "(">>, k)
                            /\ \A j \in 1..(k - 1) : ~OccursAt(text, <<" ", "(">>, j)) - 1)
    ELSE text

AllDigits(text) == text # <<>> /\ \A k \in IndexSet(text) : IsDigit(text[k])

\* text is three runs of digits separated by two slashes
ThreeNumericParts(text) ==
    \E i, j \in IndexSet(text) :
        /\ i < j
        /\ \A k \in IndexSet(text) : text[k] = "/" <=> k \in {i, j}
        /\ AllDigits(SubSeq(text, 1, i - 1))
        /\ AllDigits(SubSeq(text, i + 1, j - 1))
        /\ AllDigits(SubSeq(text, j + 1, Len(text)))

\* C13: normalizePastSessions keeps exactly the records whose date field,
\* before the first " (", is three numeric parts separated by slashes; the
\* kept records come back as type 'past' sessions in ascending date order.
C13_KeepsExactlyNumericDates ==
    Normalized =>
        /\ Len(normalized) =
              Cardinality({ i \in IndexSet(dailyData) :
                              ThreeNumericParts(BeforeParen(DateFieldOf(dailyData[i]))) })
        /\ \A k \in IndexSet(normalized) : normalized[k].type = "past"
        /\ \A k \in 1..(Len(normalized) - 1) :
              TimeLE(normalized[k].date, normalized[k + 1].date)

\* the records for which parseERPDate returns a date
KeptRecords ==
    SelectSeq(dailyData, LAMBDA record : parseERPDate(DateFieldOf(record)) # <<>>)

\* the first non-empty of the two presence fields
PresenceOf(record) ==
    IF record.present # "" THEN record.present ELSE record.studentstatus

ExpectedPastStatus(record) ==
    IF PresenceOf(record) \in {"Present", "P"} THEN "present" ELSE "absent"

\* C14: the sessions returned by normalizePastSessions are the kept records,
\* each with its parsed date and with status 'present' exactly when the first
\* non-empty of present and studentstatus is 'Present' or 'P', and 'absent'
\* in every other case.
C14_StatusOfFirstNonEmptyField ==
    Normalized =>
        /\ Len(normalized) = Len(KeptRecords)
        /\ \E p \in Permutations(IndexSet(normalized)) :
              \A k \in IndexSet(normalized) :
                  /\ normalized[p[k]].status = ExpectedPastStatus(KeptRecords[k])
                  /\ normalized[p[k]].date = parseERPDate(DateFieldOf(KeptRecords[k]))[1]

\* a record with present = 'Absent' and studentstatus = 'Present' and a record
\* with only studentstatus = 'P' were both kept
C14_Witness ==
    /\ Normalized
    /\ Len(normalized) = 2
    /\ \E i, j \in IndexSet(dailyData) :
          /\ dailyData[i].present = "Absent" /\ dailyData[i].studentstatus = "Present"
          /\ dailyData[j].present = "" /\ dailyData[j].studentstatus = "P"
    /\ \E k \in IndexSet(normalized) : normalized[k].status = "present"
    /\ \E k \in IndexSet(normalized) : normalized[k].status = "absent"

-----------------------------------------------------------------------------
(* Properties of the statistics *)

KeptWithStatus(status) ==
    { k \in IndexSet(KeptRecords) : ExpectedPastStatus(KeptRecords[k]) = status }

\* C15: stats.current counts the kept historical records only, by their own
\* presence fields; stats.projected counts the whole trajectory, whose length
\* is current.total plus the number of surviving future slots; delta is
\* projected.percentage - current.percentage.
C15_CurrentAndProjectedCounts ==
    Done =>
        LET current   == result.stats.current
            projected == result.stats.projected
        IN  /\ current.present = Cardinality(KeptWithStatus("present"))
            /\ current.absent = Cardinality(KeptWithStatus("absent"))
            /\ current.total = Len(KeptRecords)
            /\ projected.present = CountStatus(result.trajectory, "present")
            /\ projected.absent = CountStatus(result.trajectory, "absent")
            /\ projected.total = Len(result.trajectory)
            /\ projected.total = current.total + Len(SurvivingSlots)
            /\ result.stats.delta = projected.percentage - current.percentage

\* history with a present and an absent record, overrides and event blocks,
\* a surviving slot overridden to 'absent', and a non-zero delta
C15_Witness ==
    /\ Done
    /\ KeptWithStatus("present") # {}
    /\ KeptWithStatus("absent") # {}
    /\ overrides # <<>>
    /\ events # <<>>
    /\ \E k \in IndexSet(SurvivingSlots) : SurvivingSlots[k].status = "absent"
    /\ result.stats.delta # 0

\* round(1000 * present / total) with halves rounded up, in tenths of a percent
HalfUpTenths(present, total) == (2000 * present + total) \div (2 * total)

\* C16: the running percentage of every trajectory entry is
\* round(1000 * presentCount / total) / 10 over the sessions up to that entry,
\* within 0..100, and stats.projected.percentage is the value at the last
\* entry, equal to that formula on projected.present and projected.total.
C16_RunningPercentage ==
    /\ loop.i > 0 =>
          /\ loop.y = HalfUpTenths(loop.present, loop.present + loop.absent)
          /\ loop.y >= 0 /\ loop.y <= 1000
    /\ (calls = <<"computeProjectedStats">> /\ loop.i > 0) =>
          LET projected == result.stats.projected
          IN  /\ projected.percentage = loop.y
              /\ projected.percentage = HalfUpTenths(projected.present, projected.total)

-----------------------------------------------------------------------------
(* Frame of the historical sessions *)

IsPast(entry) == entry.type = "past"

\* dates and statuses of the past-origin entries of a trajectory, in order
PastPart(trajectory) ==
    LET past == SelectSeq(trajectory, IsPast)
    IN  [k \in IndexSet(past) |-> [date |-> past[k].date, status |-> past[k].status]]

\* the results of the same call with no overrides and no event blocks
ResultsWithoutPlanning ==
    buildTrajectory(dailyData, timetable, subjectCode, <<>>, <<>>, weeksAhead, now)

\* C17: the past-origin entries of the trajectory (count, dates, statuses) and
\* stats.current are those of the same call with empty overrides and events.
C17_HistoryUntouched ==
    Done =>
        \E plain \in ResultsWithoutPlanning :
            /\ PastPart(result.trajectory) = PastPart(plain.trajectory)
            /\ result.stats.current = plain.stats.current

\* a past session lies inside an event block, an override is keyed by its
\* date, and the overrides and events changed the projected part
C17_Witness ==
    /\ Done
    /\ \E i \in IndexSet(result.trajectory) :
          /\ result.trajectory[i].type = "past"
          /\ Excluded(result.trajectory[i])
          /\ \E o \in IndexSet(overrides) :
                overrides[o].slotId = result.trajectory[i].dateKey \o "_09:00"
    /\ result \notin ResultsWithoutPlanning

-----------------------------------------------------------------------------
(* Properties of applyEvents *)

BlocksCovering(slot) == { k \in IndexSet(events) : DayInBlock(slot.date, events[k]) }

NotExcluded(slot) == BlocksCovering(slot) = {}

\* C18: applyEvents returns, in their order and unchanged, exactly the slots
\* whose date lies in no block's days startDate .. endDate (both included); a
\* slot covered by several blocks is removed once and an empty event list
\* returns every slot.
C18_RemovesExactlyTheCovered ==
    LastCall = "applyEvents" =>
        /\ slots = SelectSeq(argSlots, NotExcluded)
        /\ events = <<>> => slots = argSlots

\* one call met a slot covered by two blocks, a slot on the last day of a
\* block of several days, and a slot covered by none
C18_Witness ==
    /\ LastCall = "applyEvents"
    /\ \E i, j, k \in IndexSet(argSlots) :
          /\ Cardinality(BlocksCovering(argSlots[i])) >= 2
          /\ \E b \in BlocksCovering(argSlots[j]) :
                /\ events[b].startDate.day < events[b].endDate.day
                /\ argSlots[j].date.day = events[b].endDate.day
          /\ BlocksCovering(argSlots[k]) = {}
    /\ slots # <<>>

-----------------------------------------------------------------------------
(* Determinism and totality of buildTrajectory *)

C20_NeverRaises ==
    calls = <<"buildTrajectory">> => exception = ""

-----------------------------------------------------------------------------
(* Statistics of a history without future slots *)

\* C21: when no future slot survives and at least one historical session
\* exists, stats.projected equals stats.current in present, absent, total and
\* percentage, and stats.delta = 0.
C21_ProjectedEqualsCurrent ==
    calls = <<"computeCurrentStats", "computeProjectedStats">> =>
        /\ result.stats.projected = result.stats.current
        /\ result.stats.delta = 0

-----------------------------------------------------------------------------
(* triggerJiitSync: each action runs one invocation from one await to the next *)

EngineIdle ==
    /\ dailyData = <<>>
    /\ timetable = [Saturday |-> <<>>]
    /\ subjectCode = CS1
    /\ overrides = <<>>
    /\ events = <<>>
    /\ weeksAhead = 0
    /\ now \in NowChoices
    /\ startDate = now
    /\ endDate = now
    /\ argSlots = <<>>
    /\ slots = <<>>
    /\ calls = <<>>
    /\ result = NoResult
    /\ normalized = <<>>
    /\ loop = LoopStart
    /\ runs = <<>>
    /\ exception = ""

InitSync == EngineIdle /\ AppIdle

\* the invocation is between the lock and its return
Running(c) == syncCalls[c].pc \in {"login", "semester", "fetch", "daily", "firestore"}

\* the test of the lock
LockTakenIgnored == FALSE

LockTaken == syncInProgress

\* the catch and finally blocks
Offline(c) ==
    /\ syncStatus' = [syncStatus EXCEPT !.jiit = "offline"]
    /\ syncInProgress' = FALSE
    /\ syncCalls' = [syncCalls EXCEPT ![c].pc = "done", ![c].returned = "offline"]
    /\ UNCHANGED localStorage

\* the invocation calls the portal and waits for the answer
Await(c, pc, n) ==
    /\ syncCalls' = [syncCalls EXCEPT ![c].pc = pc,
                                      ![c].portalCalls = syncCalls[c].portalCalls + n]
    /\ UNCHANGED <<syncInProgress, syncStatus, localStorage>>

\* the call, up to its first await or its early return
TriggerJiitSync(c) ==
    /\ syncCalls[c].pc = "idle"
    /\ \E credentials \in BOOLEAN, uid \in BOOLEAN :
          LET call == [syncCalls[c] EXCEPT !.credentials = credentials, !.uid = uid]
          IN  IF ~credentials
              THEN /\ syncStatus' = [syncStatus EXCEPT !.jiit = "offline"]
                   /\ syncCalls' = [syncCalls EXCEPT ![c] =
                                       [call EXCEPT !.pc = "done",
                                                    !.returned = "no-credentials",
                                                    !.published = TRUE]]
                   /\ UNCHANGED <<syncInProgress, localStorage>>
              ELSE IF LockTaken
              THEN /\ syncCalls' = [syncCalls EXCEPT ![c] =
                                       [call EXCEPT !.pc = "done",
                                                    !.returned = "already-syncing"]]
                   /\ UNCHANGED <<syncInProgress, syncStatus, localStorage>>
              ELSE /\ syncInProgress' = TRUE
                   /\ syncStatus' = [syncStatus EXCEPT !.jiit = "syncing"]
                   /\ syncCalls' = [syncCalls EXCEPT ![c] =
                                       [call EXCEPT !.pc = "login",
                                                    !.portalCalls = 1,
                                                    !.published = TRUE]]
                   /\ UNCHANGED localStorage
    /\ UNCHANGED <<engine, cacheVars, clicks, portalVars>>

\* Portal.login settles
LoginSettles(c) ==
    /\ syncCalls[c].pc = "login"
    /\ \E ok \in BOOLEAN : IF ok THEN Await(c, "semester", 1) ELSE Offline(c)
    /\ UNCHANGED <<engine, cacheVars, clicks, portalVars>>

\* Portal.getLatestSemester settles
SemesterSettles(c) ==
    /\ syncCalls[c].pc = "semester"
    /\ \E ok \in BOOLEAN : IF ok THEN Await(c, "fetch", 3) ELSE Offline(c)
    /\ UNCHANGED <<engine, cacheVars, clicks, portalVars>>

\* the three fetches of Promise.all settle
FetchSettles(c) ==
    /\ syncCalls[c].pc = "fetch"
    /\ \E ok \in BOOLEAN, subjects \in 0..1 :
          IF ok THEN Await(c, "daily", subjects) ELSE Offline(c)
    /\ UNCHANGED <<engine, cacheVars, clicks, portalVars>>

\* the daily details settle, each failure handled on its own; the data is saved
DailySettles(c) ==
    /\ syncCalls[c].pc = "daily"
    /\ localStorage' = [localStorage EXCEPT !.lastRefresh = c]
    /\ IF syncCalls[c].uid
       THEN /\ syncCalls' = [syncCalls EXCEPT ![c].pc = "firestore", ![c].wrote = TRUE]
            /\ UNCHANGED <<syncInProgress, syncStatus>>
       ELSE /\ syncStatus' = [syncStatus EXCEPT !.jiit = "online"]
            /\ syncInProgress' = FALSE
            /\ syncCalls' = [syncCalls EXCEPT ![c].pc = "done", ![c].wrote = TRUE,
                                              ![c].returned = "success"]
    /\ UNCHANGED <<engine, cacheVars, clicks, portalVars>>

\* syncSubjectsToFirestore settles; it handles its own failures
FirestoreSettles(c) ==
    /\ syncCalls[c].pc = "firestore"
    /\ syncStatus' = [syncStatus EXCEPT !.jiit = "online"]
    /\ syncInProgress' = FALSE
    /\ syncCalls' = [syncCalls EXCEPT ![c].pc = "done", ![c].returned = "success"]
    /\ UNCHANGED <<localStorage, engine, cacheVars, clicks, portalVars>>

NextSync ==
    \/ \E c \in SyncCallIds : TriggerJiitSync(c)
    \/ \E c \in SyncCallIds : LoginSettles(c)
    \/ \E c \in SyncCallIds : SemesterSettles(c)
    \/ \E c \in SyncCallIds : FetchSettles(c)
    \/ \E c \in SyncCallIds : DailySettles(c)
    \/ \E c \in SyncCallIds : FirestoreSettles(c)

SpecSync == InitSync /\ [][NextSync]_vars

\* C22: triggerJiitSync is mutually exclusive: at most one invocation is past
\* the lock at any time and the lock is held exactly while one is; an
\* invocation with credentials that starts while another is running returns
\* 'already-syncing' without calling the portal, changing the sync status or
\* writing storage; every exit (success, portal failure) releases the lock.
C22_MutualExclusion ==
    /\ [](/\ Cardinality({ c \in SyncCallIds : Running(c) }) <= 1
          /\ syncInProgress <=> \E c \in SyncCallIds : Running(c))
    /\ [][\A c \in SyncCallIds :
            (/\ syncCalls[c].pc = "idle"
             /\ syncCalls'[c].pc # "idle"
             /\ syncCalls'[c].credentials
             /\ \E d \in SyncCallIds \ {c} : Running(d))
            => /\ syncCalls'[c].pc = "done"
               /\ syncCalls'[c].returned = "already-syncing"
               /\ syncCalls'[c].portalCalls = 0
               /\ syncStatus' = syncStatus
               /\ localStorage' = localStorage
               /\ syncInProgress' = syncInProgress]_vars

\* a sync ended, one way or the other, and a later invocation holds the lock
\* while one more was turned away
C22_Witness ==
    \E c, d \in SyncCallIds :
        /\ syncCalls[c].returned \in {"offline", "success", "already-syncing"}
        /\ syncCalls[c].credentials
        /\ Running(d)

\* C28: whenever a triggerJiitSync run holds the lock, the published jiit
\* status is 'syncing': no other call changes it before the sync finishes.
C28_SyncingWhileLocked ==
    syncInProgress => syncStatus.jiit = "syncing"

-----------------------------------------------------------------------------
(* getDailyAttendance and silentCacheAllSubjects, from one await to the next *)

\* a page asks for the daily attendance of a subject: the local entry is
\* missing, fresh or stale
InitDaily ==
    /\ EngineIdle
    /\ SyncIdle
    /\ PortalIdle
    /\ clicks = <<>>
    /\ isSilentCaching = FALSE
    /\ silentCacheStatus = Null
    /\ cacheRuns = [r \in CacheRunIds |-> NotStarted]
    /\ dailyCalls = [k \in DailyCallers |-> NoDailyCall]
    /\ dailyAttendanceCache \in
          [SubjectCodes -> {Null, [data |-> <<"local">>, isStale |-> FALSE],
                                  [data |-> <<"local">>, isStale |-> TRUE]}]

\* the silent cacher works for one signed-in user on the subjects whose entry
\* is missing or stale
InitCache ==
    /\ EngineIdle
    /\ SyncIdle
    /\ PortalIdle
    /\ clicks = <<>>
    /\ isSilentCaching = FALSE
    /\ silentCacheStatus = Null
    /\ \E uid \in BOOLEAN, credentials \in BOOLEAN :
          cacheRuns = [r \in CacheRunIds |->
                          [NotStarted EXCEPT !.uid = uid, !.credentials = credentials]]
    /\ dailyCalls = [k \in DailyCallers |-> NoDailyCall]
    /\ dailyAttendanceCache \in
          [SubjectCodes -> {Null, [data |-> <<"local">>, isStale |-> TRUE]}]

\* getDailyAttendance up to its first await or its return from the local cache
CallDaily(code, uid, credentials) ==
    LET localCache == dailyAttendanceCache[code]
        call == [NoDailyCall EXCEPT !.code = code, !.uid = uid,
                                    !.credentials = credentials,
                                    !.localCache = localCache]
    IN  IF localCache # Null /\ ~localCache.isStale
        THEN [call EXCEPT !.pc = "returned",
                          !.value = [data |-> localCache.data, fromCache |-> TRUE]]
        ELSE IF uid
        THEN [call EXCEPT !.pc = "firestore", !.contacted = {"firestore"}]
        ELSE [call EXCEPT !.pc = "portal",
                          !.contacted = IF credentials THEN {"portal"} ELSE {}]

\* what the call does with an error of the fetch
OnFetchErrorRethrow(call) == [call EXCEPT !.pc = "thrown"]

OnFetchError(call) ==
    IF call.localCache # Null
    THEN [call EXCEPT !.pc = "returned",
                      !.value = [data |-> call.localCache.data, fromCache |-> TRUE]]
    ELSE [call EXCEPT !.pc = "thrown"]

\* a page calls getDailyAttendance
GetDailyAttendance ==
    /\ dailyCalls[0].pc \in {"idle", "returned", "thrown"}
    /\ \E code \in SubjectCodes, uid \in BOOLEAN, credentials \in BOOLEAN :
          dailyCalls' = [dailyCalls EXCEPT ![0] = CallDaily(code, uid, credentials)]
    /\ UNCHANGED <<engine, syncVars, isSilentCaching, silentCacheStatus, cacheRuns,
                   dailyAttendanceCache, clicks, portalVars>>

\* loadFromFirestore settles: it throws, finds nothing, a stale copy or a fresh one
LoadFromFirestoreSettles(k) ==
    /\ dailyCalls[k].pc = "firestore"
    /\ \E outcome \in {"throw", "null", "stale", "fresh"} :
          LET call == dailyCalls[k]
          IN  IF outcome = "fresh"
              THEN /\ dailyAttendanceCache' =
                         [dailyAttendanceCache EXCEPT ![call.code] =
                             [data |-> <<"remote">>, isStale |-> FALSE]]
                   /\ dailyCalls' = [dailyCalls EXCEPT ![k] =
                         [call EXCEPT !.pc = "returned", !.firestore = "fresh",
                                      !.value = [data |-> <<"remote">>,
                                                 fromCache |-> TRUE]]]
              ELSE /\ dailyCalls' = [dailyCalls EXCEPT ![k] =
                         [call EXCEPT !.pc = "portal", !.firestore = "miss",
                                      !.contacted =
                                          IF call.credentials
                                          THEN call.contacted \cup {"portal"}
                                          ELSE call.contacted]]
                   /\ UNCHANGED dailyAttendanceCache
    /\ UNCHANGED <<engine, syncVars, isSilentCaching, silentCacheStatus, cacheRuns,
                   clicks, portalVars>>

\* fetchFromPortal settles: it throws, or returns no record, or some records
FetchFromPortalSettles(k) ==
    /\ dailyCalls[k].pc = "portal"
    /\ \E outcome \in IF dailyCalls[k].credentials THEN {"throw", "empty", "data"}
                                                    ELSE {"throw"} :
          LET call == [dailyCalls[k] EXCEPT !.fetch = outcome]
          IN  CASE outcome = "data" ->
                     /\ dailyAttendanceCache' =
                           [dailyAttendanceCache EXCEPT ![call.code] =
                               [data |-> <<"remote">>, isStale |-> FALSE]]
                     /\ dailyCalls' = [dailyCalls EXCEPT ![k] =
                           [call EXCEPT !.pc = "returned",
                                        !.value = [data |-> <<"remote">>,
                                                   fromCache |-> FALSE]]]
                [] outcome = "empty" ->
                     /\ dailyCalls' = [dailyCalls EXCEPT ![k] =
                           [call EXCEPT !.pc = "returned",
                                        !.value =
                                            IF call.localCache # Null
                                            THEN [data |-> call.localCache.data,
                                                  fromCache |-> TRUE]
                                            ELSE [data |-> <<>>, fromCache |-> FALSE]]]
                     /\ UNCHANGED dailyAttendanceCache
                [] outcome = "throw" ->
                     /\ dailyCalls' = [dailyCalls EXCEPT ![k] = OnFetchError(call)]
                     /\ UNCHANGED dailyAttendanceCache
    /\ UNCHANGED <<engine, syncVars, isSilentCaching, silentCacheStatus, cacheRuns,
                   clicks, portalVars>>

\* the head of the for loop: the next subject's getDailyAttendance call, or the
\* end of the run
StartIteration(r, run, index, status) ==
    IF index > Len(run.needsCache)
    THEN LET final == [caching |-> FALSE, total |-> Len(run.needsCache),
                       completed |-> run.completed]
         IN  /\ isSilentCaching' = FALSE
             /\ silentCacheStatus' = final
             /\ cacheRuns' = [cacheRuns EXCEPT ![r] =
                                 [run EXCEPT !.pc = "done", !.final = final,
                                             !.needsCache = <<>>, !.index = 0,
                                             !.completed = 0]]
             /\ dailyCalls' = [dailyCalls EXCEPT ![r] = NoDailyCall]
    ELSE /\ isSilentCaching' = TRUE
         /\ silentCacheStatus' = status
         /\ cacheRuns' = [cacheRuns EXCEPT ![r] =
                             [run EXCEPT !.pc = "daily", !.index = index]]
         /\ dailyCalls' = [dailyCalls EXCEPT ![r] =
                              CallDaily(run.needsCache[index], run.uid, run.credentials)]

\* the subjects whose local entry is missing or stale
getSubjectsNeedingCache(subjectCodes) ==
    LET NeedsCache(code) == \/ dailyAttendanceCache[code] = Null
                            \/ dailyAttendanceCache[code].isStale
    IN  SelectSeq(subjectCodes, NeedsCache)

\* the call, up to its first await or its early return
SilentCacheAllSubjects(r) ==
    /\ cacheRuns[r].pc = "idle"
    /\ IF isSilentCaching
       THEN /\ cacheRuns' = [cacheRuns EXCEPT ![r].pc = "done"]
            /\ UNCHANGED <<isSilentCaching, silentCacheStatus, dailyCalls>>
       ELSE \E attendance \in {<<>>, [i \in 1..MaxSubjects |-> i]} :
               LET needsCache == getSubjectsNeedingCache(attendance)
                   n   == Len(needsCache)
                   run == [cacheRuns[r] EXCEPT !.needsCache = needsCache]
               IN  IF n = 0
                   THEN /\ cacheRuns' = [cacheRuns EXCEPT ![r] =
                                            [run EXCEPT !.pc = "done"]]
                        /\ UNCHANGED <<isSilentCaching, silentCacheStatus, dailyCalls>>
                   ELSE StartIteration(r, run, 1,
                            [caching |-> TRUE, total |-> n, completed |-> 0])
    /\ UNCHANGED <<engine, syncVars, dailyAttendanceCache, clicks, portalVars>>

\* the error of a subject's fetch leaves the function
Uncaught(r, run) ==
    /\ cacheRuns' = [cacheRuns EXCEPT ![r] = [NotStarted EXCEPT !.pc = "done"]]
    /\ dailyCalls' = [dailyCalls EXCEPT ![r] = NoDailyCall]
    /\ UNCHANGED <<isSilentCaching, silentCacheStatus>>

\* the catch block inside the loop: on to the next subject
Caught(r, run) == StartIteration(r, run, run.index + 1, silentCacheStatus)

\* the awaited getDailyAttendance has returned or thrown
DailyAttendanceSettles(r) ==
    /\ cacheRuns[r].pc = "daily"
    /\ dailyCalls[r].pc \in {"returned", "thrown"}
    /\ LET run == cacheRuns[r]
       IN  IF dailyCalls[r].pc = "returned"
           THEN /\ cacheRuns' = [cacheRuns EXCEPT ![r].pc = "delay",
                                                  ![r].completed = run.completed + 1]
                /\ silentCacheStatus' = [caching |-> TRUE,
                                         total |-> Len(run.needsCache),
                                         completed |-> run.completed + 1]
                /\ dailyCalls' = [dailyCalls EXCEPT ![r] = NoDailyCall]
                /\ UNCHANGED isSilentCaching
           ELSE Caught(r, run)
    /\ UNCHANGED <<engine, syncVars, dailyAttendanceCache, clicks, portalVars>>

\* the 500 ms pause is over
DelaySettles(r) ==
    /\ cacheRuns[r].pc = "delay"
    /\ StartIteration(r, cacheRuns[r], cacheRuns[r].index + 1, silentCacheStatus)
    /\ UNCHANGED <<engine, syncVars, dailyAttendanceCache, clicks, portalVars>>

NextDaily ==
    \/ GetDailyAttendance
    \/ \E k \in DailyCallers : LoadFromFirestoreSettles(k)
    \/ \E k \in DailyCallers : FetchFromPortalSettles(k)

SpecDaily == InitDaily /\ [][NextDaily]_vars

NextCache ==
    \/ \E k \in DailyCallers : LoadFromFirestoreSettles(k)
    \/ \E k \in DailyCallers : FetchFromPortalSettles(k)
    \/ \E r \in CacheRunIds : SilentCacheAllSubjects(r)
    \/ \E r \in CacheRunIds : DailyAttendanceSettles(r)
    \/ \E r \in CacheRunIds : DelaySettles(r)

\* a promise that a run waits for settles
Settles ==
    \/ \E k \in DailyCallers : LoadFromFirestoreSettles(k)
    \/ \E k \in DailyCallers : FetchFromPortalSettles(k)
    \/ \E r \in CacheRunIds : DailyAttendanceSettles(r)
    \/ \E r \in CacheRunIds : DelaySettles(r)

\* every promise a run waits for settles in the end
SpecCache == InitCache /\ [][NextCache]_vars /\ WF_vars(Settles)

\* the getDailyAttendance call of caller k is over
Settled(k) == dailyCalls[k].pc \in {"returned", "thrown"}

\* C23: getDailyAttendance falls back to stale data: with a stale local entry,
\* no fresh Firestore copy and a fetch that throws or returns nothing it
\* returns the local data with fromCache = true; it throws only when the fetch
\* throws and there is no local entry; a fresh local entry is returned without
\* contacting Firestore or the portal.
C23_StaleFallback ==
    \A k \in DailyCallers :
        LET call == dailyCalls[k]
        IN  /\ (/\ Settled(k)
                /\ call.localCache # Null
                /\ call.localCache.isStale
                /\ call.firestore # "fresh"
                /\ call.fetch \in {"throw", "empty"})
               => /\ call.pc = "returned"
                  /\ call.value = [data |-> call.localCache.data, fromCache |-> TRUE]
            /\ call.pc = "thrown" => call.fetch = "throw" /\ call.localCache = Null
            /\ (call.pc # "idle" /\ call.localCache # Null /\ ~call.localCache.isStale)
               => /\ call.pc = "returned"
                  /\ call.value = [data |-> call.localCache.data, fromCache |-> TRUE]
                  /\ call.contacted = {}

\* a fetch threw after Firestore had nothing fresh, and the stale local entry
\* came back
C23_Witness ==
    \E k \in DailyCallers :
        /\ dailyCalls[k].pc = "returned"
        /\ dailyCalls[k].fetch = "throw"
        /\ dailyCalls[k].firestore = "miss"
        /\ dailyCalls[k].localCache # Null
        /\ dailyCalls[k].value.fromCache

\* run r has set the in-progress flag and has not finished
Active(r) == cacheRuns[r].pc \in {"daily", "delay"}

\* C24: every silentCacheAllSubjects run that sets the in-progress flag
\* eventually clears it and sends a final status with caching = false and
\* completed <= total, whichever fetches fail; a call made while the flag is set
\* returns at once without fetching, so at most one run is active.
C24_RunsFinish ==
    /\ \A r \in CacheRunIds :
          Active(r) ~> (/\ cacheRuns[r].pc = "done"
                        /\ cacheRuns[r].final # Null
                        /\ ~cacheRuns[r].final.caching
                        /\ cacheRuns[r].final.completed <= cacheRuns[r].final.total)
    /\ [](/\ Cardinality({ r \in CacheRunIds : Active(r) }) <= 1
          /\ isSilentCaching <=> \E r \in CacheRunIds : Active(r))
    /\ [][\A r \in CacheRunIds :
            (cacheRuns[r].pc = "idle" /\ cacheRuns'[r].pc # "idle" /\ isSilentCaching)
            => /\ cacheRuns'[r].pc = "done"
               /\ dailyCalls'[r] = dailyCalls[r]
               /\ isSilentCaching']_vars
    /\ [][\A r \in CacheRunIds :
            (Active(r) /\ ~Active(r)')
            => /\ ~isSilentCaching'
               /\ silentCacheStatus' = cacheRuns'[r].final]_vars

\* a run finished although one of its fetches threw
C24_Witness ==
    \E r \in CacheRunIds :
        /\ cacheRuns[r].pc = "done"
        /\ cacheRuns[r].final # Null
        /\ cacheRuns[r].final.completed < cacheRuns[r].final.total
        /\ \E q \in CacheRunIds : cacheRuns[q].pc = "done" /\ cacheRuns[q].final = Null

-----------------------------------------------------------------------------
(* Template entries without a subject code *)

\* C30: generateFutureSlots emits no slot for a template entry that has no
\* subject code when the target subject code is non-empty.
C30_NoSlotWithoutCode ==
    (LastCall = "generateFutureSlots" /\ subjectCode # <<>>) =>
        \A d \in DaysInRange :
            \A n \in 1..Cardinality(SlotsOn(d)) : EntryCode(EntryOfSlot(d, n)) # <<>>

-----------------------------------------------------------------------------
(* The planning page: projection end date and slot clicks *)

\* new Date() - new Date(), in milliseconds
MsBetween(later, earlier) ==
    (later.day - earlier.day) * (EndOfDayMs + 1) + later.ms - earlier.ms

\* Math.ceil(a / b) for b > 0
Ceil(a, b) == -((-a) \div b)

\* the weeksAhead memo
WeeksAheadOf(end, today) ==
    LET weeks == Ceil(MsBetween(end, today), 7 * (EndOfDayMs + 1))
    IN  IF weeks > 1 THEN weeks ELSE 1

\* the trajectoryResult memo
TrajectoryResultOf(records, ovs, weeks) ==
    IF Len(records) = 0 \/ DOMAIN timetable = {}
    THEN { [trajectory |-> <<>>, todayIndex |-> 0, stats |-> Null] }
    ELSE buildTrajectory(records, timetable, subjectCode, ovs, events, weeks, now)

\* new Date('YYYY-MM-DD') is midnight UTC: 00:00 or 05:30 local time
EndDateChoices ==
    { DateAt(20483 + n, ms) : n \in {0, 3, MaxEndDays}, ms \in {0, 19800000} }

\* saved overrides of earlier visits
SavedOverrides ==
    { <<>>,
      << [slotId |-> "2026-02-02_09:00", status |-> "absent"] >>,
      << [slotId |-> "2026-02-02_09:00", status |-> "cancelled"],
         [slotId |-> "2026-01-30_09:00", status |-> "absent"] >> }

InitPlanning ==
    /\ SyncIdle
    /\ CacheIdle
    /\ PortalIdle
    /\ clicks = <<>>
    /\ dailyData = << Record(DateWed, <<>>, "Present", "") >>
    /\ timetable \in TemplateChoices
    /\ subjectCode = CS1
    /\ overrides \in SavedOverrides
    /\ events = <<>>
    /\ now \in NowChoices
    /\ startDate = now
    /\ endDate \in EndDateChoices
    /\ weeksAhead = WeeksAheadOf(endDate, now)
    /\ argSlots = <<>>
    /\ slots = generateFutureSlots(timetable, subjectCode, now, endDate)
    /\ calls = <<>>
    /\ result \in TrajectoryResultOf(dailyData, overrides, weeksAhead)
    /\ normalized = <<>>
    /\ loop = LoopStart
    /\ runs = <<>>
    /\ exception = ""

\* the user picks another end date; the memos are computed again
SetProjectionEndDate ==
    /\ Len(clicks) < MaxClicks
    /\ clicks' = Append(clicks, [slotId |-> "", overrides |-> overrides,
                                 result |-> result])
    /\ \E end \in EndDateChoices :
          /\ end # endDate
          /\ endDate' = end
          /\ weeksAhead' = WeeksAheadOf(end, now)
          /\ slots' = generateFutureSlots(timetable, subjectCode, now, end)
          /\ result' \in TrajectoryResultOf(dailyData, overrides, WeeksAheadOf(end, now))
    /\ UNCHANGED <<dailyData, timetable, subjectCode, overrides, events, now, startDate,
                   argSlots, calls, normalized, loop, runs, exception,
                   syncVars, cacheVars, portalVars>>

\* the status after a click
NextStatusOf(currentStatus) ==
    CASE currentStatus = "present"   -> "absent"
      [] currentStatus = "absent"    -> "cancelled"
      [] currentStatus = "cancelled" -> "present"
      [] OTHER                       -> "absent"

\* variant: the value 'present' is stored like the others
handleSlotToggleStoring(ovs, slotId, newStatus) ==
    IF \E k \in 1..Len(ovs) : ovs[k].slotId = slotId
    THEN [k \in 1..Len(ovs) |->
             IF ovs[k].slotId = slotId THEN [ovs[k] EXCEPT !.status = newStatus]
             ELSE ovs[k]]
    ELSE Append(ovs, [slotId |-> slotId, status |-> newStatus])

\* the override object after a toggle, as the list of its entries
handleSlotToggle(ovs, slotId, newStatus) ==
    IF newStatus = "present"
    THEN SelectSeq(ovs, LAMBDA o : o.slotId # slotId)
    ELSE IF \E k \in 1..Len(ovs) : ovs[k].slotId = slotId
    THEN [k \in 1..Len(ovs) |->
             IF ovs[k].slotId = slotId THEN [ovs[k] EXCEPT !.status = newStatus]
             ELSE ovs[k]]
    ELSE Append(ovs, [slotId |-> slotId, status |-> newStatus])

\* the status the calendar shows for a slot
getSlotStatus(ovs, slot) ==
    OrElse(OverrideMapGet(ovs, slot.slotId), slot.status, "present")

\* the user clicks a slot of the calendar; the page renders again
HandleSlotClick ==
    /\ Len(clicks) < MaxClicks
    /\ \E n \in 1..Len(slots) :
          LET slot       == slots[n]
              nextStatus == NextStatusOf(getSlotStatus(overrides, slot))
              updated    == handleSlotToggle(overrides, slot.slotId, nextStatus)
          IN  /\ overrides' = updated
              /\ result' \in TrajectoryResultOf(dailyData, updated, weeksAhead)
              /\ clicks' = Append(clicks, [slotId |-> slot.slotId, overrides |-> overrides,
                                           result |-> result])
    /\ UNCHANGED <<dailyData, timetable, subjectCode, events, weeksAhead, now, startDate,
                   endDate, argSlots, slots, calls, normalized, loop, runs, exception,
                   syncVars, cacheVars, portalVars>>

NextPlanning == SetProjectionEndDate \/ HandleSlotClick

SpecPlanning == InitPlanning /\ [][NextPlanning]_vars

\* the override object as a set of entries
EntrySet(ovs) == { ovs[k] : k \in 1..Len(ovs) }

\* the last three clicks were on the same slot
ThreeClicksOnOneSlot ==
    /\ Len(clicks) >= 3
    /\ clicks[Len(clicks)].slotId # ""
    /\ clicks[Len(clicks)].slotId = clicks[Len(clicks) - 1].slotId
    /\ clicks[Len(clicks)].slotId = clicks[Len(clicks) - 2].slotId

\* C25: clicking a future slot cycles present -> absent -> cancelled ->
\* present: the stored override map never holds 'present', and three
\* consecutive clicks on one slot restore the override map and the status used
\* by the trajectory.
C25_ClickCycle ==
    /\ \A k \in 1..Len(overrides) : overrides[k].status # "present"
    /\ ThreeClicksOnOneSlot =>
          LET before == clicks[Len(clicks) - 2]
          IN  /\ EntrySet(overrides) = EntrySet(before.overrides)
              /\ applyOverrides(slots, overrides) = applyOverrides(slots, before.overrides)
              /\ result = before.result

\* three clicks on one slot that began with a stored 'absent'
C25_Witness ==
    /\ ThreeClicksOnOneSlot
    /\ OverrideMapGet(clicks[Len(clicks) - 2].overrides, clicks[Len(clicks)].slotId) = "absent"
    /\ Len(result.trajectory) > 1

\* C29: on the planning page no projected trajectory entry has a date later
\* than the projection end date the user chose.
C29_NothingAfterEndDate ==
    calls = <<>> =>
        \A i \in 1..Len(result.trajectory) :
            result.trajectory[i].type = "projected"
                => TimeLE(result.trajectory[i].date, SetHours(endDate, EndOfDayMs))

-----------------------------------------------------------------------------
(* PortalEngine: logins and data methods, from one await to the next *)

InitPortal == EngineIdle /\ AppIdle

Methods == {"getLatestSemester", "getRegisteredSubjects", "getAttendanceOverview",
            "getPersonalInfo", "getSubjectDailyAttendance"}

\* the login attempts that have settled
SettledLogins == { l \in LoginIds : logins[l].pc \in {"ok", "failed"} }

\* how the most recent settled login attempt ended, "" before the first
LastLogin ==
    IF SettledLogins = {} THEN ""
    ELSE LET last == CHOOSE l \in SettledLogins :
                         \A m \in SettledLogins : logins[m].order <= logins[l].order
         IN  logins[last].pc

\* the cache a method reads and writes, 0 where it has none
CacheOf(method) ==
    CASE method = "getLatestSemester"     -> jiitManager.cachedSemester
      [] method = "getRegisteredSubjects" -> jiitManager.cachedSubjects
      [] method = "getAttendanceOverview" -> jiitManager.cachedAttendance
      [] OTHER                            -> 0

\* login is called: student_login is sent
Login(l) ==
    /\ logins[l].pc = "idle"
    /\ logins' = [logins EXCEPT ![l].pc = "awaiting"]
    /\ UNCHANGED <<engine, syncVars, cacheVars, clicks, jiitManager, fetches>>

\* student_login settles: a session, no session, or an error
StudentLoginSettles(l) ==
    /\ logins[l].pc = "awaiting"
    /\ \E outcome \in {"session", "no session", "error"} :
          /\ logins' = [logins EXCEPT
                           ![l].pc = IF outcome = "session" THEN "ok" ELSE "failed",
                           ![l].order = Cardinality(SettledLogins) + 1]
          /\ jiitManager' =
                IF outcome = "session"
                THEN [Constructed EXCEPT !.isLoggedIn = TRUE, !.session = l]
                ELSE jiitManager
    /\ UNCHANGED <<engine, syncVars, cacheVars, clicks, fetches>>

\* a data method is called: ensureLoggedIn, the cache, the request
CallMethod(f) ==
    /\ fetches[f].pc = "idle"
    /\ \E method \in Methods :
          LET call == [NoFetch EXCEPT !.method = method, !.lastLogin = LastLogin]
          IN  fetches' = [fetches EXCEPT ![f] =
                 IF ~jiitManager.isLoggedIn
                 THEN [call EXCEPT !.pc = "raised", !.error = "SessionExpiredError"]
                 ELSE IF CacheOf(method) # 0
                 THEN [call EXCEPT !.pc = "returned", !.value = CacheOf(method)]
                 ELSE IF method # "getLatestSemester" /\ method # "getPersonalInfo"
                         /\ jiitManager.rawSemester = 0
                 THEN [call EXCEPT !.pc = "raised", !.error = "PortalError"]
                 ELSE [call EXCEPT !.pc = "awaiting", !.request = jiitManager.session]]
    /\ UNCHANGED <<engine, syncVars, cacheVars, clicks, jiitManager, logins>>

\* the portal answers a data method's request, or the request fails
MethodSettles(f) ==
    /\ fetches[f].pc = "awaiting"
    /\ \E ok \in BOOLEAN :
          LET call == fetches[f]
          IN  IF ok
              THEN /\ fetches' = [fetches EXCEPT ![f].pc = "returned",
                                                 ![f].value = call.request]
                   /\ jiitManager' =
                         CASE call.method = "getLatestSemester" ->
                                  [jiitManager EXCEPT !.rawSemester = call.request,
                                                      !.cachedSemester = call.request]
                           [] call.method = "getRegisteredSubjects" ->
                                  [jiitManager EXCEPT !.cachedSubjects = call.request]
                           [] call.method = "getAttendanceOverview" ->
                                  [jiitManager EXCEPT !.cachedAttendance = call.request]
                           [] OTHER -> jiitManager
              ELSE /\ fetches' = [fetches EXCEPT ![f].pc = "raised",
                                                 ![f].error = "PortalError"]
                   /\ UNCHANGED jiitManager
    /\ UNCHANGED <<engine, syncVars, cacheVars, clicks, logins>>

NextPortal ==
    \/ \E l \in LoginIds : Login(l)
    \/ \E l \in LoginIds : StudentLoginSettles(l)
    \/ \E f \in FetchIds : CallMethod(f)
    \/ \E f \in FetchIds : MethodSettles(f)

SpecPortal == InitPortal /\ [][NextPortal]_vars

\* C26: after a login call has completed successfully the semester, subjects
\* and attendance caches hold no value obtained under an earlier session,
\* values of fetches that were in flight during the login included.
C26_NoStaleCacheAfterLogin ==
    LastLogin = "ok" =>
        \A method \in Methods : CacheOf(method) \in {0, jiitManager.session}

\* C27: before any login, and after a login attempt that failed, each data
\* method raises SessionExpiredError and returns no cached data.
C27_ExpiredUnlessLoggedIn ==
    \A f \in FetchIds :
        (fetches[f].pc # "idle" /\ fetches[f].lastLogin # "ok")
            => fetches[f].pc = "raised" /\ fetches[f].error = "SessionExpiredError"

====
